---- MODULE Spec2Model ----
(***************************************************************************)
(* Verification model of the three-terrain core: the quadtree LOD manager  *)
(* (utils/terrain/quadtree, hooks/useTerrainQuadtree), the tile mesh       *)
(* builder (hooks/useTerrainGeometry), the height sampler                  *)
(* (utils/terrain/heightmap, utils/terrain/heightSampler) and the          *)
(* vegetation placer (utils/terrain/vegetationGeneration).                 *)
(*                                                                         *)
(* World coordinates, sizes and times are integers: metres and             *)
(* milliseconds.  Factors that the program keeps as floating-point numbers *)
(* (split factor, hysteresis, steps) are exact rationals <<num, den>>.     *)
(***************************************************************************)
EXTENDS Integers, Sequences, FiniteSets, TLC

VARIABLES
    rootSize,            \* store.rootSize
    minTileSize,         \* store.minTileSize
    tileResolution,      \* store.tileResolution
    lodSplitFactor,      \* store.lodSplitFactor, a rational <<num, den>>
    lodHysteresis,       \* store.lodHysteresis, a rational <<num, den>>
    clock,               \* clock.getElapsedTime() at the last frame, in ms
    lastUpdatePosition,  \* useRef({x: null, z: null}); <<>> is the null pair
    lastUpdateTime,      \* useRef(0), in ms
    quadtreeRoots,       \* useRef(new Map()): sequence of [key, root] in insertion order
    leafTiles,           \* useState([]): the published list of [node, edgeStitchInfo]
    cycle,               \* the camera position and the store values read by the last LOD recompute
    edits,               \* number of store setter calls so far
    seed,                \* store.seed
    spawnRadius,         \* store.spawnRadius, in metres
    waterLevel,          \* store.waterLevel, in metres
    baseHeightScale,     \* store.baseHeightScale
    spawnTransitionRadius, \* store.spawnTransitionRadius, in metres
    samplers,            \* the height samplers created so far, with their noise instances
    samples,             \* the calls made to the samplers, in order, with their results
    waterQueries,        \* the isWater calls made, in order, with their results
    geometry,            \* the result of the last run of the tile mesh builder
    vegetation,          \* the result of the last run of the vegetation placer
    sceneLoaded,         \* store.sceneLoaded
    isLoading,           \* useRef(false) of useLoadingManager
    timers,              \* number of pending setTimeout(..., 0) callbacks of onStart
    handlers,            \* TRUE while DefaultLoadingManager.onStart/onLoad are installed
    loadLog,             \* the loading events so far, in order
    terrainTile,         \* one TerrainTile component: its geometries, refs and effects
    store,               \* the other fields of the store's state
    presetCall           \* the last call of applyPreset or applyPresetById

lodVars == <<rootSize, minTileSize, tileResolution, lodSplitFactor, lodHysteresis,
             clock, lastUpdatePosition, lastUpdateTime, quadtreeRoots,
             leafTiles, cycle, edits>>

nonLodVars == <<seed, spawnRadius, waterLevel, baseHeightScale, spawnTransitionRadius,
               samplers, samples, waterQueries, geometry, vegetation>>

loadingVars == <<sceneLoaded, isLoading, timers, handlers, loadLog>>

presetVars == <<store, presetCall>>

appVars == <<loadingVars, terrainTile, presetVars>>

vars == <<lodVars, nonLodVars, appVars>>

(***************************************************************************)
(* Bounds of the model                                                     *)
(***************************************************************************)
MaxClock == 200
MaxEdits == 2

\* camera positions offered to a frame
CameraPositions == { <<2040, 1500>>, <<2072, 1500>> }

\* frame intervals, in ms
FrameDeltas == { 50, 100 }

\* values offered to the store setters
RootSizes == { 3072, 1024 }
MinTileSizes == { 64 }
TileResolutions == { 8 }
SplitFactors == { <<3, 2>>, <<1, 1>> }
Hystereses == { <<1, 1>> }

(***************************************************************************)
(* Arithmetic helpers                                                      *)
(***************************************************************************)
RECURSIVE Gcd(_, _)
Gcd(a, b) == IF b = 0 THEN a ELSE Gcd(b, a % b)

\* the rational n/d in lowest terms (d > 0)
Rat(n, d) == LET g == Gcd(IF n < 0 THEN -n ELSE n, d) IN <<n \div g, d \div g>>

\* floor((m/d)^2) for m >= 0, d > 0, without forming m*m
SqFloor(m, d) ==
    LET q == m \div d
        r == m % d
    IN  q * q + ((2 * q * r * d + r * r) \div (d * d))

SqExact(m, d) ==
    LET q == m \div d
        r == m % d
    IN  (2 * q * r * d + r * r) % (d * d) = 0

\* a < (m/d)^2 and a > (m/d)^2 for an integer a
LessThanSq(a, m, d) == IF SqExact(m, d) THEN a < SqFloor(m, d) ELSE a <= SqFloor(m, d)
GreaterThanSq(a, m, d) == a > SqFloor(m, d)

RECURSIVE Log2Int(_)
Log2Int(n) == IF n <= 1 THEN 0 ELSE 1 + Log2Int(n \div 2)

RECURSIVE IsPow2(_)
IsPow2(n) == IF n = 1 THEN TRUE ELSE IF n < 1 \/ n % 2 # 0 THEN FALSE ELSE IsPow2(n \div 2)

\* the text of Math.log2(a / b) as a template string prints it: an integer
\* when a/b is a power of two (or its inverse), a non-integer otherwise
Log2Text(a, b) ==
    IF a % b = 0 /\ IsPow2(a \div b) THEN ToString(Log2Int(a \div b))
    ELSE IF b % a = 0 /\ IsPow2(b \div a) THEN ToString(0 - Log2Int(b \div a))
    ELSE "log2(" \o ToString(a) \o "/" \o ToString(b) \o ")"

Abs(x) == IF x < 0 THEN 0 - x ELSE x

\* Math.floor(x / s) for integers x and s > 0
FloorDiv(x, s) == x \div s

(***************************************************************************)
(* config/lod.js                                                           *)
(***************************************************************************)
QUADTREE_ROOT_SIZE == 4096
QUADTREE_MIN_SIZE == 32
MAX_QUADTREE_DEPTH == Log2Int(QUADTREE_ROOT_SIZE \div QUADTREE_MIN_SIZE)
TILE_RESOLUTION == 16

(***************************************************************************)
(* utils/terrain/quadtree: QuadtreeNode                                    *)
(***************************************************************************)
\* `qt_${lod}_${Math.floor(centerX)}_${Math.floor(centerZ)}`; node centres
\* are integers in every modelled configuration, lodText is the printed lod
NodeKey(lodText, centerX, centerZ) ==
    "qt_" \o lodText \o "_" \o ToString(centerX) \o "_" \o ToString(centerZ)

\* children = <<>> is the null of a leaf
QuadtreeNode(centerX, centerZ, size, lod) ==
    [ centerX |-> centerX, centerZ |-> centerZ, size |-> size, lod |-> lod,
      children |-> <<>>, key |-> NodeKey(ToString(lod), centerX, centerZ) ]

DistSq(node, viewerX, viewerZ) ==
    LET dx == viewerX - node.centerX
        dz == viewerZ - node.centerZ
    IN  dx * dx + dz * dz

shouldSubdivide(node, viewerX, viewerZ, splitFactor, minSize) ==
    IF node.size <= minSize THEN FALSE
    ELSE LessThanSq(DistSq(node, viewerX, viewerZ), node.size * splitFactor[1], splitFactor[2])

\* faulty variant: the merge threshold without the hysteresis factor
shouldMerge_NoHysteresis(node, viewerX, viewerZ, splitFactor, hysteresis) ==
    GreaterThanSq(DistSq(node, viewerX, viewerZ), node.size * splitFactor[1], splitFactor[2])

\* faulty variant: the merge threshold is the split threshold divided by the
\* hysteresis factor
shouldMerge_InverseHysteresis(node, viewerX, viewerZ, splitFactor, hysteresis) ==
    GreaterThanSq(DistSq(node, viewerX, viewerZ),
                  node.size * splitFactor[1] * hysteresis[2],
                  splitFactor[2] * hysteresis[1])

shouldMerge(node, viewerX, viewerZ, splitFactor, hysteresis) ==
    GreaterThanSq(DistSq(node, viewerX, viewerZ),
                  node.size * splitFactor[1] * hysteresis[1],
                  splitFactor[2] * hysteresis[2])

\* faulty variant: the children in the order NW, NE, SE, SW
subdivide_SwappedSouth(node) ==
    LET halfSize == node.size \div 2
        quarterSize == halfSize \div 2
        childLod == node.lod - 1
    IN  [ node EXCEPT !.children =
            << QuadtreeNode(node.centerX - quarterSize, node.centerZ + quarterSize, halfSize, childLod),
               QuadtreeNode(node.centerX + quarterSize, node.centerZ + quarterSize, halfSize, childLod),
               QuadtreeNode(node.centerX + quarterSize, node.centerZ - quarterSize, halfSize, childLod),
               QuadtreeNode(node.centerX - quarterSize, node.centerZ - quarterSize, halfSize, childLod) >> ]

\* children in the order NW, NE, SW, SE
subdivide(node) ==
    LET halfSize == node.size \div 2
        quarterSize == halfSize \div 2
        childLod == node.lod - 1
    IN  [ node EXCEPT !.children =
            << QuadtreeNode(node.centerX - quarterSize, node.centerZ + quarterSize, halfSize, childLod),
               QuadtreeNode(node.centerX + quarterSize, node.centerZ + quarterSize, halfSize, childLod),
               QuadtreeNode(node.centerX - quarterSize, node.centerZ - quarterSize, halfSize, childLod),
               QuadtreeNode(node.centerX + quarterSize, node.centerZ - quarterSize, halfSize, childLod) >> ]

\* faulty variant: the merge drops the grandchildren and keeps the children
merge_KeepsChildren(node) ==
    [ node EXCEPT !.children = [ i \in 1..4 |-> [ node.children[i] EXCEPT !.children = <<>> ] ] ]

merge(node) == [ node EXCEPT !.children = <<>> ]

\* faulty variant: a node that splits leaves its new children to the next
\* update
RECURSIVE update_DeferredSplit(_, _, _, _, _, _)
update_DeferredSplit(node, viewerX, viewerZ, splitFactor, hysteresis, minSize) ==
    IF node.children # <<>> THEN
        IF shouldMerge(node, viewerX, viewerZ, splitFactor, hysteresis)
        THEN merge(node)
        ELSE [ node EXCEPT !.children =
                 [ i \in 1..4 |-> update_DeferredSplit(node.children[i], viewerX, viewerZ,
                                                       splitFactor, hysteresis, minSize) ] ]
    ELSE
        IF shouldSubdivide(node, viewerX, viewerZ, splitFactor, minSize)
        THEN subdivide(node)
        ELSE node

RECURSIVE update(_, _, _, _, _, _)
update(node, viewerX, viewerZ, splitFactor, hysteresis, minSize) ==
    IF node.children # <<>> THEN
        IF shouldMerge(node, viewerX, viewerZ, splitFactor, hysteresis)
        THEN merge(node)
        ELSE [ node EXCEPT !.children =
                 [ i \in 1..4 |-> update(node.children[i], viewerX, viewerZ,
                                         splitFactor, hysteresis, minSize) ] ]
    ELSE
        IF shouldSubdivide(node, viewerX, viewerZ, splitFactor, minSize)
        THEN LET n == subdivide(node)
             IN  [ n EXCEPT !.children =
                     [ i \in 1..4 |-> update(n.children[i], viewerX, viewerZ,
                                             splitFactor, hysteresis, minSize) ] ]
        ELSE node

\* the number of subdivide() and of merge() calls that take the tree old to
\* the tree new in one update
RECURSIVE Internal(_)
Internal(node) ==
    IF node.children = <<>> THEN 0
    ELSE 1 + Internal(node.children[1]) + Internal(node.children[2])
           + Internal(node.children[3]) + Internal(node.children[4])

RECURSIVE Splits(_, _)
Splits(old, new) ==
    IF old.children = <<>> THEN Internal(new)
    ELSE IF new.children = <<>> THEN 0
    ELSE Splits(old.children[1], new.children[1]) + Splits(old.children[2], new.children[2])
         + Splits(old.children[3], new.children[3]) + Splits(old.children[4], new.children[4])

RECURSIVE Merges(_, _)
Merges(old, new) ==
    IF old.children = <<>> THEN 0
    ELSE IF new.children = <<>> THEN 1
    ELSE Merges(old.children[1], new.children[1]) + Merges(old.children[2], new.children[2])
         + Merges(old.children[3], new.children[3]) + Merges(old.children[4], new.children[4])

\* the number of nodes below the nodes that one update merged
RECURSIVE Discarded(_, _)
Discarded(old, new) ==
    IF old.children = <<>> THEN 0
    ELSE IF new.children = <<>>
    THEN 4 * Internal(old)
    ELSE Discarded(old.children[1], new.children[1]) + Discarded(old.children[2], new.children[2])
         + Discarded(old.children[3], new.children[3]) + Discarded(old.children[4], new.children[4])

\* faulty variant: a subdivided node is pushed to the leaves as well
RECURSIVE Collected_WithParents(_)
Collected_WithParents(node) ==
    LET own == [ leaves |-> <<node>>, allNodes |-> (node.key :> node), sets |-> 1 ]
    IN  IF node.children # <<>>
        THEN LET c1 == Collected_WithParents(node.children[1])
                 c2 == Collected_WithParents(node.children[2])
                 c3 == Collected_WithParents(node.children[3])
                 c4 == Collected_WithParents(node.children[4])
             IN  [ leaves |-> own.leaves \o c1.leaves \o c2.leaves \o c3.leaves \o c4.leaves,
                   allNodes |-> c4.allNodes @@ c3.allNodes @@ c2.allNodes @@ c1.allNodes
                                   @@ own.allNodes,
                   sets |-> 1 + c1.sets + c2.sets + c3.sets + c4.sets ]
        ELSE own

\* what collectLeaves adds when it starts at node with empty arguments: the
\* leaves pushed, the entries set in allNodes (a later set of a key replaces
\* the entry) and the number of allNodes.set calls
RECURSIVE Collected(_)
Collected(node) ==
    LET own == [ leaves |-> <<>>, allNodes |-> (node.key :> node), sets |-> 1 ]
    IN  IF node.children # <<>>
        THEN LET c1 == Collected(node.children[1])
                 c2 == Collected(node.children[2])
                 c3 == Collected(node.children[3])
                 c4 == Collected(node.children[4])
             IN  [ leaves |-> c1.leaves \o c2.leaves \o c3.leaves \o c4.leaves,
                   allNodes |-> c4.allNodes @@ c3.allNodes @@ c2.allNodes @@ c1.allNodes
                                   @@ own.allNodes,
                   sets |-> 1 + c1.sets + c2.sets + c3.sets + c4.sets ]
        ELSE [ own EXCEPT !.leaves = <<node>> ]

\* collectLeaves(leaves, allNodes) with the arguments acc = [leaves, allNodes, sets]
collectLeaves(node, acc) ==
    LET c == Collected(node)
    IN  [ leaves |-> acc.leaves \o c.leaves,
          allNodes |-> c.allNodes @@ acc.allNodes,
          sets |-> acc.sets + c.sets ]

EmptyCollection == [ leaves |-> <<>>, allNodes |-> <<>>, sets |-> 0 ]

(***************************************************************************)
(* utils/terrain/quadtree: getEdgeStitchInfo                               *)
(***************************************************************************)
Edges == { "north", "south", "east", "west" }

probeOffset == 1

\* the probe point just outside an edge of the node
Probe(node, edge) ==
    LET halfSize == node.size \div 2
    IN  CASE edge = "north" -> <<node.centerX, node.centerZ + halfSize + probeOffset>>
          [] edge = "south" -> <<node.centerX, node.centerZ - halfSize - probeOffset>>
          [] edge = "east"  -> <<node.centerX + halfSize + probeOffset, node.centerZ>>
          [] edge = "west"  -> <<node.centerX - halfSize - probeOffset, node.centerZ>>

\* Math.log2(checkSize / QUADTREE_MIN_SIZE) as the key template prints it,
\* tabulated for the multiples of QUADTREE_MIN_SIZE up to QUADTREE_ROOT_SIZE
\* (the loop of getEdgeStitchInfo never looks beyond that size)
LodTextTable ==
    [ q \in 1..(QUADTREE_ROOT_SIZE \div QUADTREE_MIN_SIZE) |->
        Log2Text(q * QUADTREE_MIN_SIZE, QUADTREE_MIN_SIZE) ]

LodText(checkSize) ==
    IF checkSize % QUADTREE_MIN_SIZE = 0 /\ checkSize <= QUADTREE_ROOT_SIZE
    THEN LodTextTable[checkSize \div QUADTREE_MIN_SIZE]
    ELSE Log2Text(checkSize, QUADTREE_MIN_SIZE)

\* the key looked up for a probe at size checkSize
NeighborKey(x, z, checkSize) ==
    LET nodeX == FloorDiv(x, checkSize) * checkSize + checkSize \div 2
        nodeZ == FloorDiv(z, checkSize) * checkSize + checkSize \div 2
    IN  NodeKey(LodText(checkSize), nodeX, nodeZ)

\* the while loop of one probe: the checkSize at which a coarser leaf is
\* found, 0 when the loop ends without one; keys is the key set of allNodes
RECURSIVE CoarserLeafSize(_, _, _, _, _)
CoarserLeafSize(x, z, checkSize, allNodes, keys) ==
    IF checkSize > QUADTREE_ROOT_SIZE THEN 0
    ELSE LET neighborKey == NeighborKey(x, z, checkSize)
         IN  IF neighborKey \in keys /\ allNodes[neighborKey].children = <<>>
             THEN checkSize
             ELSE CoarserLeafSize(x, z, checkSize * 2, allNodes, keys)

getEdgeStitchInfo(node, allNodes, minSize) ==
    LET keys == DOMAIN allNodes IN
    [ edge \in Edges |->
        LET p == Probe(node, edge)
            found == CoarserLeafSize(p[1], p[2], node.size * 2, allNodes, keys)
        IN  IF found # 0
            THEN [ needsStitch |-> TRUE, neighborStep |-> Rat(found, TILE_RESOLUTION) ]
            ELSE [ needsStitch |-> FALSE, neighborStep |-> Rat(node.size, TILE_RESOLUTION) ] ]

(***************************************************************************)
(* hooks/useTerrainQuadtree: the useFrame callback                         *)
(***************************************************************************)
UpdateInterval == 100      \* 0.1 s
viewRange == 2

RootKey(rootX, rootZ) == ToString(rootX) \o "," \o ToString(rootZ)

\* the candidate roots of the window, in the order of the two loops
WindowOffsets ==
    [ n \in 1..((2 * viewRange + 1) * (2 * viewRange + 1)) |->
        << ((n - 1) \div (2 * viewRange + 1)) - viewRange,
           ((n - 1) % (2 * viewRange + 1)) - viewRange >> ]

\* the roots needed around the camera: a sequence of <<rootX, rootZ>>
RECURSIVE RootsNeededFrom(_, _, _, _)
RootsNeededFrom(n, camX, camZ, rSize) ==
    IF n > Len(WindowOffsets) THEN <<>>
    ELSE LET rootTileX == FloorDiv(camX, rSize) + WindowOffsets[n][1]
             rootTileZ == FloorDiv(camZ, rSize) + WindowOffsets[n][2]
             rootX == rootTileX * rSize + rSize \div 2
             rootZ == rootTileZ * rSize + rSize \div 2
             distX == camX - rootX
             distZ == camZ - rootZ
             distSq == distX * distX + distZ * distZ
             rest == RootsNeededFrom(n + 1, camX, camZ, rSize)
         IN  IF distSq < rSize * rSize * 4 THEN << <<rootX, rootZ>> >> \o rest ELSE rest

RootsNeeded(camX, camZ, rSize) == RootsNeededFrom(1, camX, camZ, rSize)

HasRoot(roots, key) == \E i \in 1..Len(roots) : roots[i].key = key

\* create the missing roots (appended in loop order), keep the existing ones
RECURSIVE CreateRoots(_, _, _)
CreateRoots(roots, needed, rSize) ==
    IF needed = <<>> THEN roots
    ELSE LET rootX == Head(needed)[1]
             rootZ == Head(needed)[2]
             rootKey == RootKey(rootX, rootZ)
             next == IF HasRoot(roots, rootKey) THEN roots
                     ELSE Append(roots, [ key |-> rootKey,
                                          root |-> QuadtreeNode(rootX, rootZ, rSize, MAX_QUADTREE_DEPTH) ])
         IN  CreateRoots(next, Tail(needed), rSize)

\* remove the roots whose key is not needed
EvictRoots(roots, needed) ==
    LET neededKeys == { RootKey(needed[i][1], needed[i][2]) : i \in 1..Len(needed) }
    IN  SelectSeq(roots, LAMBDA r : r.key \in neededKeys)

UpdateRoots(roots, camX, camZ, splitFactor, hysteresis, minSize) ==
    [ i \in 1..Len(roots) |->
        [ roots[i] EXCEPT !.root = update(roots[i].root, camX, camZ, splitFactor, hysteresis, minSize) ] ]

RECURSIVE CollectRoots(_, _, _)
CollectRoots(roots, i, acc) ==
    IF i > Len(roots) THEN acc
    ELSE CollectRoots(roots, i + 1, collectLeaves(roots[i].root, acc))

\* a published tile refers to its node; the model keeps the node's fields
TileNode(node) == [ key |-> node.key, centerX |-> node.centerX, centerZ |-> node.centerZ,
                    size |-> node.size, lod |-> node.lod ]

TilesWithStitching(collected, minSize) ==
    [ i \in 1..Len(collected.leaves) |->
        [ node |-> TileNode(collected.leaves[i]),
          edgeStitchInfo |-> getEdgeStitchInfo(collected.leaves[i], collected.allNodes, minSize) ] ]

\* an updater that looks at the lengths of the two lists only
ReturnsNewTiles_LengthOnly(prevTiles, tilesWithStitching) ==
    Len(prevTiles) # Len(tilesWithStitching)

\* the updater passed to setLeafTiles returns tilesWithStitching, the new
\* list object, and not prevTiles
ReturnsNewTiles(prevTiles, tilesWithStitching) ==
    IF Len(prevTiles) # Len(tilesWithStitching) THEN TRUE
    ELSE LET prevKeys == { prevTiles[i].node.key : i \in 1..Len(prevTiles) }
             \* prevTileMap: the last previous tile set under each key
             prevTileMap ==
                 [ k \in prevKeys |->
                     prevTiles[CHOOSE i \in 1..Len(prevTiles) :
                                  /\ prevTiles[i].node.key = k
                                  /\ \A j \in (i + 1)..Len(prevTiles) : prevTiles[j].node.key # k] ]
             hasChanges ==
                 \E i \in 1..Len(tilesWithStitching) :
                    LET newTile == tilesWithStitching[i]
                    IN  \/ newTile.node.key \notin prevKeys
                        \/ \E e \in Edges :
                             \/ prevTileMap[newTile.node.key].edgeStitchInfo[e].needsStitch
                                  # newTile.edgeStitchInfo[e].needsStitch
                             \/ prevTileMap[newTile.node.key].edgeStitchInfo[e].neighborStep
                                  # newTile.edgeStitchInfo[e].neighborStep
         IN  hasChanges

\* the updater passed to setLeafTiles
SetLeafTilesUpdater(prevTiles, tilesWithStitching) ==
    IF ReturnsNewTiles(prevTiles, tilesWithStitching) THEN tilesWithStitching ELSE prevTiles

RECURSIVE SumOver(_, _, _)
SumOver(Op(_, _), olds, news) ==
    IF olds = <<>> THEN 0
    ELSE Op(Head(olds).root, Head(news).root) + SumOver(Op, Tail(olds), Tail(news))

\* what the last LOD recompute read (camera position, store values) and did
\* (the number of recomputes so far, of subdivide() and of merge() calls, the
\* node map allNodes it built and passed to getEdgeStitchInfo, the list
\* tilesWithStitching it passed to the updater of setLeafTiles and whether the
\* updater returned that list object)
NoCycle == [ ran |-> FALSE, count |-> 0, camX |-> 0, camZ |-> 0, rootSize |-> 0,
             minTileSize |-> 0, tileResolution |-> 0, splitFactor |-> <<0, 1>>,
             hysteresis |-> <<0, 1>>, splits |-> 0, merges |-> 0, discarded |-> 0,
             evicted |-> 0, allNodes |-> <<>>, published |-> FALSE,
             tiles |-> <<>> ]

\* faulty variant: the useFrame callback without the 0.1 s throttle
Frame_NoThrottle(camX, camZ, now) ==
    /\ clock' = now
    /\ UNCHANGED <<rootSize, minTileSize, tileResolution, lodSplitFactor, lodHysteresis, edits>>
    /\ UNCHANGED <<nonLodVars, appVars>>
    /\ IF FALSE
       THEN UNCHANGED <<lastUpdatePosition, lastUpdateTime, quadtreeRoots, leafTiles, cycle>>
       ELSE LET isFirstUpdate == lastUpdatePosition = <<>>
                dx == camX - lastUpdatePosition[1]
                dz == camZ - lastUpdatePosition[2]
            IN  IF ~isFirstUpdate /\ dx * dx + dz * dz < minTileSize * minTileSize
                THEN UNCHANGED <<lastUpdatePosition, lastUpdateTime, quadtreeRoots, leafTiles, cycle>>
                ELSE LET needed == RootsNeeded(camX, camZ, rootSize)
                         created == CreateRoots(quadtreeRoots, needed, rootSize)
                         kept == EvictRoots(created, needed)
                         updated == UpdateRoots(kept, camX, camZ, lodSplitFactor,
                                                lodHysteresis, minTileSize)
                         collected == CollectRoots(updated, 1, EmptyCollection)
                         tilesWithStitching == TilesWithStitching(collected, minTileSize)
                     IN  /\ lastUpdatePosition' = <<camX, camZ>>
                         /\ quadtreeRoots' = updated
                         /\ lastUpdateTime' = now
                         /\ leafTiles' = SetLeafTilesUpdater(leafTiles, tilesWithStitching)
                         /\ cycle' = [ ran |-> TRUE, count |-> cycle.count + 1,
                                       camX |-> camX, camZ |-> camZ,
                                       rootSize |-> rootSize, minTileSize |-> minTileSize,
                                       tileResolution |-> tileResolution,
                                       splitFactor |-> lodSplitFactor,
                                       hysteresis |-> lodHysteresis,
                                       splits |-> SumOver(Splits, kept, updated),
                                       merges |-> SumOver(Merges, kept, updated),
                                       discarded |-> SumOver(Discarded, kept, updated),
                                       evicted |-> Len(created) - Len(kept),
                                       allNodes |-> collected.allNodes,
                                       published |->
                                           ReturnsNewTiles(leafTiles, tilesWithStitching),
                                       tiles |-> tilesWithStitching ]

\* one call of the useFrame callback with camera position (camX, camZ) at
\* clock time now
Frame(camX, camZ, now) ==
    /\ clock' = now
    /\ UNCHANGED <<rootSize, minTileSize, tileResolution, lodSplitFactor, lodHysteresis, edits>>
    /\ UNCHANGED <<nonLodVars, appVars>>
    /\ IF now - lastUpdateTime < UpdateInterval
       THEN UNCHANGED <<lastUpdatePosition, lastUpdateTime, quadtreeRoots, leafTiles, cycle>>
       ELSE LET isFirstUpdate == lastUpdatePosition = <<>>
                dx == camX - lastUpdatePosition[1]
                dz == camZ - lastUpdatePosition[2]
            IN  IF ~isFirstUpdate /\ dx * dx + dz * dz < minTileSize * minTileSize
                THEN UNCHANGED <<lastUpdatePosition, lastUpdateTime, quadtreeRoots, leafTiles, cycle>>
                ELSE LET needed == RootsNeeded(camX, camZ, rootSize)
                         created == CreateRoots(quadtreeRoots, needed, rootSize)
                         kept == EvictRoots(created, needed)
                         updated == UpdateRoots(kept, camX, camZ, lodSplitFactor,
                                                lodHysteresis, minTileSize)
                         collected == CollectRoots(updated, 1, EmptyCollection)
                         tilesWithStitching == TilesWithStitching(collected, minTileSize)
                     IN  /\ lastUpdatePosition' = <<camX, camZ>>
                         /\ quadtreeRoots' = updated
                         /\ lastUpdateTime' = now
                         /\ leafTiles' = SetLeafTilesUpdater(leafTiles, tilesWithStitching)
                         /\ cycle' = [ ran |-> TRUE, count |-> cycle.count + 1,
                                       camX |-> camX, camZ |-> camZ,
                                       rootSize |-> rootSize, minTileSize |-> minTileSize,
                                       tileResolution |-> tileResolution,
                                       splitFactor |-> lodSplitFactor,
                                       hysteresis |-> lodHysteresis,
                                       splits |-> SumOver(Splits, kept, updated),
                                       merges |-> SumOver(Merges, kept, updated),
                                       discarded |-> SumOver(Discarded, kept, updated),
                                       evicted |-> Len(created) - Len(kept),
                                       allNodes |-> collected.allNodes,
                                       published |->
                                           ReturnsNewTiles(leafTiles, tilesWithStitching),
                                       tiles |-> tilesWithStitching ]

NextFrame ==
    \E p \in CameraPositions, dt \in FrameDeltas :
        /\ clock + dt <= MaxClock
        /\ Frame(p[1], p[2], clock + dt)

\* the viewer goes back and forth between the camera positions: one frame
\* every update interval, up to MaxRecomputes of them
MaxRecomputes == 3

TurningPoints == { <<2200, 1500>>, <<2232, 1500>> }

NextFrameBack ==
    \E p \in TurningPoints :
        /\ clock + UpdateInterval <= MaxRecomputes * UpdateInterval
        /\ Frame(p[1], p[2], clock + UpdateInterval)

(***************************************************************************)
(* store/terrainStore: the LOD setters                                     *)
(***************************************************************************)
frameVars == <<clock, lastUpdatePosition, lastUpdateTime, quadtreeRoots, leafTiles, cycle>>

setRootSize(size) ==
    /\ rootSize' = size
    /\ UNCHANGED <<minTileSize, tileResolution, lodSplitFactor, lodHysteresis, frameVars, nonLodVars, appVars>>

setMinTileSize(size) ==
    /\ minTileSize' = size
    /\ UNCHANGED <<rootSize, tileResolution, lodSplitFactor, lodHysteresis, frameVars, nonLodVars, appVars>>

setTileResolution(resolution) ==
    /\ tileResolution' = resolution
    /\ UNCHANGED <<rootSize, minTileSize, lodSplitFactor, lodHysteresis, frameVars, nonLodVars, appVars>>

setLodSplitFactor(factor) ==
    /\ lodSplitFactor' = factor
    /\ UNCHANGED <<rootSize, minTileSize, tileResolution, lodHysteresis, frameVars, nonLodVars, appVars>>

setLodHysteresis(hysteresis) ==
    /\ lodHysteresis' = hysteresis
    /\ UNCHANGED <<rootSize, minTileSize, tileResolution, lodSplitFactor, frameVars, nonLodVars, appVars>>

\* a setter call that changes the store; edits counts them
CanEdit == edits < MaxEdits /\ edits' = edits + 1

NextSetRootSize == \E v \in RootSizes : v # rootSize /\ CanEdit /\ setRootSize(v)
NextSetMinTileSize == \E v \in MinTileSizes : v # minTileSize /\ CanEdit /\ setMinTileSize(v)
NextSetTileResolution == \E v \in TileResolutions : v # tileResolution /\ CanEdit /\ setTileResolution(v)
NextSetLodSplitFactor == \E v \in SplitFactors : v # lodSplitFactor /\ CanEdit /\ setLodSplitFactor(v)
NextSetLodHysteresis == \E v \in Hystereses : v # lodHysteresis /\ CanEdit /\ setLodHysteresis(v)

(***************************************************************************)
(* Heights are exact rationals <<n, d>> in lowest terms with d > 0.  The   *)
(* non-finite doubles have d = 0: <<1, 0>> is +Infinity, <<-1, 0>> is      *)
(* -Infinity and <<0, 0>> is NaN.                                          *)
(***************************************************************************)
Zero == <<0, 1>>
NaN == <<0, 0>>
Num(n) == <<n, 1>>
Sign(n) == IF n > 0 THEN 1 ELSE IF n < 0 THEN -1 ELSE 0
IsNaN(a) == a = NaN

\* Number.isFinite
IsFinite(a) == a[2] # 0

RatNeg(a) == <<0 - a[1], a[2]>>

RatAdd(a, b) ==
    IF IsFinite(a) /\ IsFinite(b)
    THEN LET g == Gcd(a[2], b[2])
         IN  Rat(a[1] * (b[2] \div g) + b[1] * (a[2] \div g), (a[2] \div g) * b[2])
    ELSE IF IsNaN(a) \/ IsNaN(b) THEN NaN
    ELSE IF ~IsFinite(a) /\ ~IsFinite(b) THEN (IF a = b THEN a ELSE NaN)
    ELSE IF IsFinite(a) THEN b ELSE a

RatSub(a, b) == RatAdd(a, RatNeg(b))

RatMul(a, b) ==
    IF IsFinite(a) /\ IsFinite(b)
    THEN LET g1 == Gcd(Abs(a[1]), b[2])
             g2 == Gcd(Abs(b[1]), a[2])
         IN  Rat((a[1] \div g1) * (b[1] \div g2), (a[2] \div g2) * (b[2] \div g1))
    ELSE IF IsNaN(a) \/ IsNaN(b) \/ a[1] = 0 \/ b[1] = 0 THEN NaN
    ELSE <<Sign(a[1]) * Sign(b[1]), 0>>

RatInv(a) ==
    IF IsNaN(a) THEN NaN
    ELSE IF ~IsFinite(a) THEN Zero
    ELSE IF a[1] = 0 THEN <<1, 0>>
    ELSE <<Sign(a[1]) * a[2], Abs(a[1])>>

RatDiv(a, b) == RatMul(a, RatInv(b))

\* a < b; false when either side is NaN
RatLess(a, b) ==
    IF IsNaN(a) \/ IsNaN(b) THEN FALSE
    ELSE IF IsFinite(a) /\ IsFinite(b) THEN a[1] * b[2] < b[1] * a[2]
    ELSE IF ~IsFinite(a) /\ ~IsFinite(b) THEN a[1] < b[1]
    ELSE IF IsFinite(a) THEN b[1] > 0
    ELSE a[1] < 0

\* Math.max
RatMax(a, b) == IF IsNaN(a) \/ IsNaN(b) THEN NaN ELSE IF RatLess(a, b) THEN b ELSE a

\* sampling points are world coordinates in half-metres, so that the grid
\* vertices of every tile and the vegetation candidates are integral
HalfMetres(m) == 2 * m

(***************************************************************************)
(* utils/terrain/noise and the noisejs package                             *)
(***************************************************************************)
\* new Noise(seed): the permutation table is fixed by the seed.  calls
\* counts the perlin2 evaluations made on the instance so far.
createSeededNoise(s) == [ seed |-> s, calls |-> 0 ]

\* a perlin2 whose value depends on the evaluations made before
perlin2_Stateful(noise, layer, period, x, z) ==
    LET cx == x \div period
        cz == z \div period
        h == ((cx * cx) % 97) * 3 + ((cz * cz) % 89) * 5 + ((cx * cz) % 83)
             + cx * 7 + cz * 11 + noise.seed * (layer + 1) + layer + noise.calls
    IN  Rat((h % 9) - 4, 4)

\* noise.perlin2 of one terrain layer at the world point (x, z): layer
\* stands for the scale and the offset of the call site, period for the side
\* of the lattice cell of that scale.  The value is a function of the seed
\* and the arguments only, here a multiple of 1/4 within [-1, 1].
perlin2(noise, layer, period, x, z) ==
    LET cx == x \div period
        cz == z \div period
        h == ((cx * cx) % 97) * 3 + ((cz * cz) % 89) * 5 + ((cx * cz) % 83)
             + cx * 7 + cz * 11 + noise.seed * (layer + 1) + layer
    IN  Rat((h % 9) - 4, 4)

(***************************************************************************)
(* The terrain layers shared by utils/terrain/heightmap and                *)
(* utils/terrain/heightSampler                                             *)
(***************************************************************************)
\* LAYER 1, the continental value after the shoreline shaping (which keeps
\* its sign); inside the spawn radius it is at least the land guarantee
Continental(noise, x, z, insideSpawn) ==
    LET continental == perlin2(noise, 1, 256, x, z)
    IN  IF insideSpawn THEN RatMax(continental, Rat(1, 4)) ELSE continental

\* LAYER 2, the base terrain variation
BaseNoise(noise, x, z) == perlin2(noise, 2, 4, x, z)

\* LAYER 3, ridgeNoise * mountainFactor within [0, 1]; inlandFactor is
\* smoothstep(continental / 0.6), which is 0 unless continental > 0
MountainShape(noise, continental, x, z) ==
    IF RatLess(Zero, continental)
    THEN LET ridge == perlin2(noise, 3, 64, x, z) IN Rat(Abs(ridge[1]), ridge[2])
    ELSE Zero

\* COMBINE: the height before the spawn transition
CombineLayers(continental, baseNoise, mountainShape, continentalMultiplier, waterThreshold, mountainScale) ==
    LET baseHeight == RatMul(continental, continentalMultiplier)
        safetyMargin == Rat(1, 2)
        minSafeHeight == RatAdd(waterThreshold, safetyMargin)
        height ==
            IF RatLess(minSafeHeight, baseHeight)
            THEN RatAdd(baseHeight, RatMul(baseNoise, Rat(1, 2)))
            ELSE IF RatLess(waterThreshold, baseHeight)
            THEN LET fadeFactor == RatDiv(RatSub(baseHeight, waterThreshold), safetyMargin)
                 IN  RatAdd(baseHeight,
                            RatMul(RatMul(RatMax(Zero, baseNoise), Rat(1, 2)), fadeFactor))
            ELSE baseHeight
    IN  RatAdd(height, RatMul(mountainShape, mountainScale))

\* t = (dist - spawnRadius) / (spawnTransitionRadius - spawnRadius), rounded
\* away from zero to the next multiple of 1/2; distSq is in half-metres
TransitionT(distSq, radius, transitionRadius) ==
    LET r == HalfMetres(radius)
        w == Abs(transitionRadius - radius)
        s == IF radius < 0 THEN 1 ELSE Sign(distSq - r * r)
        withinHalf ==
            IF s > 0 THEN r + w >= 0 /\ distSq <= (r + w) * (r + w)
            ELSE r - w <= 0 \/ distSq >= (r - w) * (r - w)
        magnitude == IF s = 0 THEN Zero ELSE IF withinHalf THEN Rat(1, 2) ELSE Num(1)
    IN  IF transitionRadius = radius THEN RatDiv(Num(s), Zero)
        ELSE RatMul(Num(s * Sign(transitionRadius - radius)), magnitude)

\* t * t * t * (t * (t * 6 - 15) + 10)
QuinticBlend(t) ==
    RatMul(RatMul(RatMul(t, t), t),
           RatAdd(RatMul(t, RatSub(RatMul(t, Num(6)), Num(15))), Num(10)))

\* SPAWN AREA: the transition from the flat spawn to the natural terrain
SpawnTransition(height, distSq, radius, transitionRadius) ==
    IF distSq < HalfMetres(transitionRadius) * HalfMetres(transitionRadius)
    THEN RatMul(height, QuinticBlend(TransitionT(distSq, radius, transitionRadius)))
    ELSE height

(***************************************************************************)
(* store/terrainStore: the terrain and water configuration                 *)
(***************************************************************************)
maxMountainHeight == 400
waterMaxDepth == 50

terrainStoreVars == <<seed, spawnRadius, waterLevel, baseHeightScale, spawnTransitionRadius>>

\* selectTerrainConfig(state) of the terrain provider
selectTerrainConfig ==
    [ seed |-> seed, baseHeightScale |-> baseHeightScale,
      maxMountainHeight |-> maxMountainHeight, spawnRadius |-> spawnRadius,
      spawnTransitionRadius |-> spawnTransitionRadius,
      waterLevel |-> waterLevel, waterMaxDepth |-> waterMaxDepth ]

(***************************************************************************)
(* utils/terrain/heightmap: createHeightSampler                            *)
(***************************************************************************)
\* the source lines of the perlin2 calls of sampleHeight
sampleHeightPerlinCalls == <<61, 62, 68, 68, 82, 88, 89, 90, 95, 96, 99>>

createHeightSampler(config) ==
    [ kind |-> "sampleHeight", config |-> config, noise |-> createSeededNoise(config.seed) ]

\* the height after the flat-spawn test, for distSq >= spawnRadiusSq or
\* when the test is left out
sampleHeightBody(sampler, x, z) ==
    LET c == sampler.config
        distSq == x * x + z * z
        insideSpawn == c.spawnRadius > 0
                       /\ distSq < HalfMetres(c.spawnRadius) * HalfMetres(c.spawnRadius)
        continental == Continental(sampler.noise, x, z, insideSpawn)
        continentalMultiplier ==
            RatDiv(Num(c.waterMaxDepth + Abs(c.waterLevel)), Num(c.baseHeightScale))
        waterThreshold == RatDiv(Num(c.waterLevel), Num(c.baseHeightScale))
        natural == CombineLayers(continental, BaseNoise(sampler.noise, x, z),
                                 MountainShape(sampler.noise, continental, x, z),
                                 continentalMultiplier, waterThreshold,
                                 RatDiv(Num(c.maxMountainHeight), Num(c.baseHeightScale)))
        height == SpawnTransition(natural, distSq, c.spawnRadius, c.spawnTransitionRadius)
    IN  [ height |-> IF IsFinite(height) THEN height ELSE Zero,
          calls |-> Len(sampleHeightPerlinCalls) ]

\* sampleHeight without the early return of the flat spawn zone
sampleHeight_NoEarlyReturn(sampler, x, z) == sampleHeightBody(sampler, x, z)

\* sampleHeight(x, z) of a sampler: the normalized height it returns and the
\* number of perlin2 evaluations it makes
sampleHeight(sampler, x, z) ==
    LET c == sampler.config
        distSq == x * x + z * z
        spawnRadiusSq == HalfMetres(c.spawnRadius) * HalfMetres(c.spawnRadius)
    IN  IF distSq < spawnRadiusSq THEN [ height |-> Zero, calls |-> 0 ]
        ELSE sampleHeightBody(sampler, x, z)

(***************************************************************************)
(* utils/terrain/heightSampler: createTerrainHelpers                       *)
(***************************************************************************)
\* config/water
WATER_LEVEL == -1

\* the source lines of the perlin2 calls of getNormalizedHeight
getNormalizedHeightPerlinCalls == <<59, 60, 66, 66, 78, 84, 85, 86, 91, 92, 95>>

createTerrainHelpers(noise, terrainConfig, waterConfig) ==
    [ kind |-> "getNormalizedHeight",
      config |-> [ terrainConfig EXCEPT !.waterMaxDepth = waterConfig.maxDepth ],
      noise |-> noise ]

getNormalizedHeight(helpers, x, z) ==
    LET c == helpers.config
        distSq == x * x + z * z
        spawnRadiusSq == HalfMetres(c.spawnRadius) * HalfMetres(c.spawnRadius)
        insideSpawn == c.spawnRadius > 0 /\ distSq < spawnRadiusSq
        continental == Continental(helpers.noise, x, z, insideSpawn)
        continentalMultiplier ==
            RatDiv(Num(c.waterMaxDepth + Abs(WATER_LEVEL)), Num(c.baseHeightScale))
        waterThreshold == Rat(-1, 4)
        natural == CombineLayers(continental, BaseNoise(helpers.noise, x, z),
                                 MountainShape(helpers.noise, continental, x, z),
                                 continentalMultiplier, waterThreshold,
                                 RatDiv(Num(c.maxMountainHeight), Num(c.baseHeightScale)))
    IN  IF distSq < spawnRadiusSq THEN [ height |-> Zero, calls |-> 0 ]
        ELSE [ height |-> SpawnTransition(natural, distSq, c.spawnRadius,
                                          c.spawnTransitionRadius),
               calls |-> Len(getNormalizedHeightPerlinCalls) ]

\* getWorldHeight
getWorldHeight(helpers, x, z) ==
    RatMul(getNormalizedHeight(helpers, x, z).height, Num(helpers.config.baseHeightScale))

\* isWater of the terrain helpers
TerrainHelpersIsWater(helpers, x, z) ==
    RatLess(getWorldHeight(helpers, x, z), Num(WATER_LEVEL))

(***************************************************************************)
(* utils/terrain/terrainQueries: createTerrainQueries                      *)
(***************************************************************************)
\* the queries the terrain provider derives from a height sampler and the
\* configuration the sampler was created from
createTerrainQueries(sampler, config) ==
    [ sampleHeight |-> sampler, baseHeightScale |-> config.baseHeightScale,
      waterLevel |-> config.waterLevel ]

getHeight(queries, x, z) ==
    RatMul(sampleHeight(queries.sampleHeight, x, z).height, Num(queries.baseHeightScale))

isWater(queries, x, z) == RatLess(getHeight(queries, x, z), Num(queries.waterLevel))

\* the helpers the hooks obtain: built on the store's configuration
getTerrainHelpers ==
    createTerrainHelpers(createSeededNoise(seed), selectTerrainConfig,
                         [ maxDepth |-> waterMaxDepth ])

\* a call of a sampler of either kind
SampleOf(sampler, x, z) ==
    IF sampler.kind = "sampleHeight" THEN sampleHeight(sampler, x, z)
    ELSE getNormalizedHeight(sampler, x, z)

(***************************************************************************)
(* The height samplers in use: the terrain provider and the library's      *)
(* callers create samplers from the store's configuration and call them    *)
(***************************************************************************)
MaxSamplers == 2
MaxSamples == 2

\* values offered to the terrain setters of the store
Seeds == { 7 }
SpawnRadii == { 64 }
WaterLevels == { -50, 50 }
BaseHeightScales == { 0 }
TransitionRadii == { 100 }

\* the points sampled, in metres: (64, 0) is strictly inside the default
\* spawn radius 200 and exactly on the radius 64; (1000, 500) is outside both
SamplePoints == { <<64, 0>>, <<1000, 500>> }

storeLodVars == <<rootSize, minTileSize, tileResolution, lodSplitFactor, lodHysteresis>>
builtVars == <<samplers, samples, waterQueries, geometry, vegetation>>

setSeed(s) ==
    /\ seed' = s
    /\ UNCHANGED <<spawnRadius, waterLevel, baseHeightScale, spawnTransitionRadius,
                   storeLodVars, frameVars, builtVars, appVars>>

setSpawnRadius(radius) ==
    /\ spawnRadius' = radius
    /\ UNCHANGED <<seed, waterLevel, baseHeightScale, spawnTransitionRadius,
                   storeLodVars, frameVars, builtVars, appVars>>

setWaterLevel(level) ==
    /\ waterLevel' = level
    /\ UNCHANGED <<seed, spawnRadius, baseHeightScale, spawnTransitionRadius,
                   storeLodVars, frameVars, builtVars, appVars>>

setBaseHeightScale(scale) ==
    /\ baseHeightScale' = scale
    /\ UNCHANGED <<seed, spawnRadius, waterLevel, spawnTransitionRadius,
                   storeLodVars, frameVars, builtVars, appVars>>

setSpawnTransitionRadius(radius) ==
    /\ spawnTransitionRadius' = radius
    /\ UNCHANGED <<seed, spawnRadius, waterLevel, baseHeightScale,
                   storeLodVars, frameVars, builtVars, appVars>>

NextSetSeed == \E v \in Seeds \cup { 1234 } : v # seed /\ CanEdit /\ setSeed(v)
NextSetSpawnRadius == \E v \in SpawnRadii : v # spawnRadius /\ CanEdit /\ setSpawnRadius(v)
NextSetWaterLevel == \E v \in WaterLevels : v # waterLevel /\ CanEdit /\ setWaterLevel(v)
NextSetBaseHeightScale == \E v \in BaseHeightScales : v # baseHeightScale /\ CanEdit /\ setBaseHeightScale(v)
NextSetSpawnTransitionRadius == \E v \in TransitionRadii : v # spawnTransitionRadius /\ CanEdit /\ setSpawnTransitionRadius(v)

\* the terrain provider's useMemo, or a caller of the library
NextCreateHeightSampler ==
    /\ Len(samplers) < MaxSamplers
    /\ samplers' = Append(samplers, createHeightSampler(selectTerrainConfig))
    /\ UNCHANGED <<lodVars, terrainStoreVars, appVars, samples, waterQueries, geometry, vegetation>>

NextCreateTerrainHelpers ==
    /\ Len(samplers) < MaxSamplers
    /\ samplers' = Append(samplers, getTerrainHelpers)
    /\ UNCHANGED <<lodVars, terrainStoreVars, appVars, samples, waterQueries, geometry, vegetation>>

\* one call sampler(x, z); the noise instance has then made the perlin2
\* evaluations of the call
Sample(i, x, z) ==
    LET result == SampleOf(samplers[i], HalfMetres(x), HalfMetres(z))
    IN  /\ samples' = Append(samples, [ sampler |-> i, x |-> x, z |-> z,
                                        height |-> result.height, calls |-> result.calls,
                                        callsBefore |-> samplers[i].noise.calls ])
        /\ samplers' = [ samplers EXCEPT ![i].noise.calls = @ + result.calls ]
        /\ UNCHANGED <<lodVars, terrainStoreVars, appVars, waterQueries, geometry, vegetation>>

NextSample ==
    \E i \in 1..Len(samplers), p \in SamplePoints :
        /\ Len(samples) < MaxSamples
        /\ Sample(i, p[1], p[2])

\* points on the spawn radius, in the transition ring and on and beyond the
\* transition radius of the configurations of the store
TransitionPoints ==
    { <<64, 0>>, <<80, 0>>, <<90, 0>>, <<100, 0>>, <<0, 200>>, <<1000, 500>>,
      <<2000, 0>>, <<2500, 0>> }

\* one call sampler(x, z) at a point of the spawn transition
NextSampleTransition ==
    \E i \in 1..Len(samplers), p \in TransitionPoints :
        /\ Len(samples) < MaxSamples
        /\ Sample(i, p[1], p[2])

\* one call isWater(x, z): of the queries of the terrain provider for a
\* sampleHeight sampler, of the terrain helpers otherwise
IsWaterQuery(i, x, z) ==
    LET sampler == samplers[i]
        result == SampleOf(sampler, HalfMetres(x), HalfMetres(z))
        water == IF sampler.kind = "sampleHeight"
                 THEN isWater(createTerrainQueries(sampler, sampler.config),
                              HalfMetres(x), HalfMetres(z))
                 ELSE TerrainHelpersIsWater(sampler, HalfMetres(x), HalfMetres(z))
    IN  /\ waterQueries' = Append(waterQueries, [ sampler |-> i, x |-> x, z |-> z,
                                                  water |-> water ])
        /\ samplers' = [ samplers EXCEPT ![i].noise.calls = @ + result.calls ]
        /\ UNCHANGED <<lodVars, terrainStoreVars, appVars, samples, geometry, vegetation>>

NextIsWater ==
    \E i \in 1..Len(samplers), p \in SamplePoints :
        /\ Len(waterQueries) < MaxSamples
        /\ IsWaterQuery(i, p[1], p[2])

(***************************************************************************)
(* hooks/useTerrainGeometry: the tile mesh builder                         *)
(***************************************************************************)
\* a step in metres, given as a rational, in half-metres
StepHalfMetres(step) == HalfMetres(step[1]) \div step[2]

\* getStitchedHeight: the height interpolated on the coarser neighbour's
\* grid along the axis of the edge; coordinates and step in half-metres
getStitchedHeight(terrainHelpers, worldX, worldZ, neighborStep, axis) ==
    LET w == IF axis = "x" THEN worldX ELSE worldZ
        w0 == FloorDiv(w, neighborStep) * neighborStep
        w1 == w0 + neighborStep
        t == Rat(w - w0, neighborStep)
        h0 == IF axis = "x" THEN getNormalizedHeight(terrainHelpers, w0, worldZ).height
              ELSE getNormalizedHeight(terrainHelpers, worldX, w0).height
        h1 == IF axis = "x" THEN getNormalizedHeight(terrainHelpers, w1, worldZ).height
              ELSE getNormalizedHeight(terrainHelpers, worldX, w1).height
    IN  RatMul(RatAdd(RatMul(h0, RatSub(Num(1), t)), RatMul(h1, t)),
               Num(terrainHelpers.config.baseHeightScale))

\* the stitchCache entry of grid vertex (i, j): west, east, south, north in
\* that priority
StitchCacheEntry(edgeStitchInfo, segments, i, j) ==
    IF i = 0 /\ edgeStitchInfo.west.needsStitch
    THEN [ cached |-> TRUE, step |-> edgeStitchInfo.west.neighborStep, axis |-> "z" ]
    ELSE IF i = segments /\ edgeStitchInfo.east.needsStitch
    THEN [ cached |-> TRUE, step |-> edgeStitchInfo.east.neighborStep, axis |-> "z" ]
    ELSE IF j = 0 /\ edgeStitchInfo.south.needsStitch
    THEN [ cached |-> TRUE, step |-> edgeStitchInfo.south.neighborStep, axis |-> "x" ]
    ELSE IF j = segments /\ edgeStitchInfo.north.needsStitch
    THEN [ cached |-> TRUE, step |-> edgeStitchInfo.north.neighborStep, axis |-> "x" ]
    ELSE [ cached |-> FALSE, step |-> <<0, 1>>, axis |-> "" ]

\* first pass: positions[posIndex + 1] of grid vertex (i, j), in metres
VertexHeight(node, edgeStitchInfo, segments, terrainHelpers, i, j) ==
    LET step == HalfMetres(node.size) \div segments
        originX == HalfMetres(node.centerX) - node.size
        originZ == HalfMetres(node.centerZ) - node.size
        worldX == originX + i * step
        worldZ == originZ + j * step
        stitchInfo == StitchCacheEntry(edgeStitchInfo, segments, i, j)
    IN  IF stitchInfo.cached
        THEN getStitchedHeight(terrainHelpers, worldX, worldZ,
                               StepHalfMetres(stitchInfo.step), stitchInfo.axis)
        ELSE RatMul(getNormalizedHeight(terrainHelpers, worldX, worldZ).height,
                    Num(terrainHelpers.config.baseHeightScale))

\* first pass: heightCache[vertIndex] of grid vertex (i, j), whose height in
\* metres is given: a stitched height divided by the scale, the direct
\* sample otherwise
VertexCache(node, edgeStitchInfo, segments, terrainHelpers, i, j, height) ==
    LET step == HalfMetres(node.size) \div segments
        worldX == HalfMetres(node.centerX) - node.size + i * step
        worldZ == HalfMetres(node.centerZ) - node.size + j * step
    IN  IF StitchCacheEntry(edgeStitchInfo, segments, i, j).cached
        THEN RatDiv(height, Num(terrainHelpers.config.baseHeightScale))
        ELSE getNormalizedHeight(terrainHelpers, worldX, worldZ).height

\* second pass: the finite differences dhdx and dhdz of grid vertex (i, j);
\* its normal is (-dhdx, 1, -dhdz) scaled to unit length
VertexNormal(node, segments, terrainHelpers, heightCache, i, j) ==
    LET sampleCount == segments + 1
        step == HalfMetres(node.size) \div segments
        worldX == HalfMetres(node.centerX) - node.size + i * step
        worldZ == HalfMetres(node.centerZ) - node.size + j * step
        scale == Num(terrainHelpers.config.baseHeightScale)
        rowOffset == j * sampleCount
        Cached(v) == RatMul(heightCache[v], scale)
        Sampled(x, z) == RatMul(getNormalizedHeight(terrainHelpers, x, z).height, scale)
        hL == IF i = 0 THEN Sampled(worldX - step, worldZ)
              ELSE IF i = segments THEN Cached(rowOffset + segments - 1)
              ELSE Cached(rowOffset + i - 1)
        hR == IF i = 0 THEN Cached(rowOffset + 1)
              ELSE IF i = segments THEN Sampled(worldX + step, worldZ)
              ELSE Cached(rowOffset + i + 1)
        hD == IF j = 0 THEN Sampled(worldX, worldZ - step)
              ELSE IF j = segments THEN Cached((segments - 1) * sampleCount + i)
              ELSE Cached((j - 1) * sampleCount + i)
        hU == IF j = 0 THEN Cached(sampleCount + i)
              ELSE IF j = segments THEN Sampled(worldX, worldZ + step)
              ELSE Cached((j + 1) * sampleCount + i)
        dx == Rat(2 * step, 2)
    IN  [ dhdx |-> RatDiv(RatSub(hR, hL), dx), dhdz |-> RatDiv(RatSub(hU, hD), dx) ]

\* the corners a, b, c, d of grid quad q (quads in the order of the loops)
QuadCorners(q, segments) ==
    LET sampleCount == segments + 1
        a == (q % segments) + sampleCount * (q \div segments)
    IN  <<a, a + 1, a + sampleCount, a + sampleCount + 1>>

\* a quad test that looks at the first corner only
QuadUnderwater_FirstCorner(depths, q, segments) ==
    RatLess(Zero, depths[QuadCorners(q, segments)[1]])

\* depths[a] > 0 || depths[b] > 0 || depths[c] > 0 || depths[d] > 0
QuadUnderwater(depths, q, segments) ==
    \E n \in 1..4 : RatLess(Zero, depths[QuadCorners(q, segments)[n]])

\* the six indices a, c, b, b, c, d of a quad
QuadIndex(q, segments, n) ==
    LET k == QuadCorners(q, segments)
    IN  <<k[1], k[3], k[2], k[2], k[3], k[4]>>[n]

\* F applied to the value of x, which is computed once
Apply(F(_), x) == CHOOSE y \in { F(v) : v \in {x} } : TRUE

\* the value the hook's memo callback returns for (node, edgeStitchInfo)
\* with the store's tileResolution and waterLevel: the first pass fills
\* heights, the second depths and normals, the water pass collects the quads
\* with an underwater corner.  waterGeometry is <<>> for null and <<geometry>>
\* otherwise.
useTerrainGeometry(node, edgeStitchInfo) ==
    LET terrainHelpers == getTerrainHelpers
        segments == tileResolution
        sampleCount == segments + 1
        totalSamples == sampleCount * sampleCount
        FirstPass ==
            [ v \in 0..(totalSamples - 1) |->
                VertexHeight(node, edgeStitchInfo, segments, terrainHelpers,
                             v % sampleCount, v \div sampleCount) ]
        SecondPass(heights) ==
            [ v \in 0..(totalSamples - 1) |->
                IF RatLess(heights[v], Num(waterLevel))
                THEN RatSub(Num(waterLevel), heights[v]) ELSE Zero ]
        NormalPass(heights) ==
            Apply(LAMBDA heightCache :
                    [ v \in 0..(totalSamples - 1) |->
                        VertexNormal(node, segments, terrainHelpers, heightCache,
                                     v % sampleCount, v \div sampleCount) ],
                  [ v \in 0..(totalSamples - 1) |->
                        VertexCache(node, edgeStitchInfo, segments, terrainHelpers,
                                    v % sampleCount, v \div sampleCount, heights[v]) ])
        WaterQuads(depths) ==
            SelectSeq([ n \in 1..(segments * segments) |-> n - 1 ],
                      LAMBDA q : QuadUnderwater(depths, q, segments))
        Result(heights, depths, waterQuads) ==
            LET hasWater == \E v \in 0..(totalSamples - 1) :
                                RatLess(heights[v], Num(waterLevel))
                waterIndices == [ n \in 1..(6 * Len(waterQuads)) |->
                                    QuadIndex(waterQuads[((n - 1) \div 6) + 1], segments,
                                              ((n - 1) % 6) + 1) ]
            IN  [ key |-> node.key, segments |-> segments, waterLevel |-> waterLevel,
                  node |-> node, edgeStitchInfo |-> edgeStitchInfo,
                  heights |-> heights, depths |-> depths, normals |-> NormalPass(heights),
                  waterGeometry |-> IF hasWater /\ Len(waterQuads) > 0
                                    THEN << [ index |-> waterIndices ] >> ELSE <<>> ]
    IN  Apply(LAMBDA heights :
                Apply(LAMBDA depths :
                        Apply(LAMBDA waterQuads : Result(heights, depths, waterQuads),
                              WaterQuads(depths)),
                      SecondPass(heights)),
              FirstPass)

\* the tiles whose geometry is built in the model: those around the viewer
BuildRange == 80

InBuildRange(node) ==
    /\ Abs(node.centerX - cycle.camX) <= BuildRange
    /\ Abs(node.centerZ - cycle.camZ) <= BuildRange

\* the render of one terrain tile: its memo callback runs.  The model
\* follows the mesh of one tile per behaviour.
BuildTile(k) ==
    /\ geometry = <<>>
    /\ geometry' = << useTerrainGeometry(leafTiles[k].node, leafTiles[k].edgeStitchInfo) >>
    /\ UNCHANGED <<lodVars, terrainStoreVars, appVars, samplers, samples, waterQueries, vegetation>>

NextBuildTile ==
    \E k \in 1..Len(leafTiles) : InBuildRange(leafTiles[k].node) /\ BuildTile(k)

\* the first LOD recompute after the scene is mounted
NextMount ==
    \E p \in CameraPositions : ~cycle.ran /\ Frame(p[1], p[2], UpdateInterval)

(***************************************************************************)
(* utils/seededRandom                                                      *)
(***************************************************************************)
\* the four bytes of a 32-bit constant, lowest first
Bytes(c) == <<c % 256, (c \div 256) % 256, (c \div 65536) % 256, c \div 16777216>>

\* (x * 374761393 + z * 668265263 + salt * 1013904223) | 0, then Math.abs:
\* the sum is formed byte by byte so that it wraps to 32 bits
hashCoords(x, z, salt) ==
    LET a == Bytes(374761393)
        b == Bytes(668265263)
        c == Bytes(1013904223)
        t1 == x * a[1] + z * b[1] + salt * c[1]
        t2 == x * a[2] + z * b[2] + salt * c[2] + (t1 \div 256)
        t3 == x * a[3] + z * b[3] + salt * c[3] + (t2 \div 256)
        t4 == x * a[4] + z * b[4] + salt * c[4] + (t3 \div 256)
        top == t4 % 256
        h == (IF top >= 128 THEN top - 256 ELSE top) * 16777216
             + (t3 % 256) * 65536 + (t2 % 256) * 256 + (t1 % 256)
    IN  Abs(h)

\* draw number n (1, 2, ...) of createSeededRandom(cellSeed), as a numerator
\* over 64: the generator's state after n draws is a function of the seed
\* and n only
Random(cellSeed, n) == ((cellSeed % 9973) * (n + 7) + (cellSeed % 61) + n * n * 31) % 64

(***************************************************************************)
(* utils/terrain/heightSampler: getNormal                                  *)
(***************************************************************************)
\* the gradient of getNormal; the un-normalized normal is (-dhdx, 1, -dhdz).
\* epsilon is one grid unit of the model (half a metre).
getNormal(helpers, x, z) ==
    LET hL == getWorldHeight(helpers, x - 1, z)
        hR == getWorldHeight(helpers, x + 1, z)
        hD == getWorldHeight(helpers, x, z - 1)
        hU == getWorldHeight(helpers, x, z + 1)
    IN  [ dhdx |-> RatSub(hR, hL), dhdz |-> RatSub(hU, hD) ]

\* 1 / normal.y squared
InverseNormalYSq(normal) ==
    RatAdd(Num(1), RatAdd(RatMul(normal.dhdx, normal.dhdx), RatMul(normal.dhdz, normal.dhdz)))

\* normal.y < bound and normal.y > bound, for 0 < normal.y <= 1
NormalYLess(normal, bound) ==
    /\ RatLess(Zero, bound)
    /\ RatLess(Num(1), RatMul(RatMul(bound, bound), InverseNormalYSq(normal)))

NormalYGreater(normal, bound) ==
    \/ RatLess(bound, Zero)
    \/ bound = Zero
    \/ RatLess(RatMul(RatMul(bound, bound), InverseNormalYSq(normal)), Num(1))

(***************************************************************************)
(* utils/terrain/vegetationGeneration                                      *)
(***************************************************************************)
\* the grass of the desert preset
grassConfig ==
    [ scale |-> [ min |-> Num(1), max |-> Rat(6, 5) ],
      slope |-> [ min |-> Zero, max |-> Rat(1, 2) ],
      height |-> [ min |-> Num(-1), max |-> Num(100) ],
      density |-> 5000,
      maxLod |-> 1 ]

\* a vegetation type at the lowest density the preset schema allows
MIN_VEGETATION_DENSITY == 0
bareConfig == [ grassConfig EXCEPT !.density = MIN_VEGETATION_DENSITY ]

\* the vegetation list of the store: typeIndex + 1 is the place in the list
vegetationTypes == <<grassConfig, bareConfig, grassConfig, bareConfig>>

\* a rounding that goes up at every fraction
RatFloor_Ceiling(a) == 0 - ((0 - a[1]) \div a[2])

\* Math.floor of a finite rational
RatFloor(a) == a[1] \div a[2]

\* one turn of a placement loop that goes on to the last attempt of its
\* budget once count instances are accepted
PlaceStep_NoCountCheck(cell, s) ==
    IF ~(s.attempts < cell.maxAttempts) THEN s
    ELSE LET span == HalfMetres(cell.minTileSize)
             vegX == cell.minX + (Random(cell.seed, s.draws + 1) * span) \div 64
             vegZ == cell.minZ + (Random(cell.seed, s.draws + 2) * span) \div 64
             vegY == getWorldHeight(cell.terrainHelpers, vegX, vegZ)
             normal == getNormal(cell.terrainHelpers, vegX, vegZ)
         IN  IF \/ RatLess(vegY, cell.config.height.min)
                \/ RatLess(cell.config.height.max, vegY)
                \/ NormalYLess(normal, RatSub(Num(1), cell.config.slope.max))
                \/ NormalYGreater(normal, RatSub(Num(1), cell.config.slope.min))
             THEN [ s EXCEPT !.attempts = @ + 1, !.draws = @ + 2 ]
             ELSE [ matrices |-> Append(s.matrices,
                                        [ x |-> vegX, y |-> vegY, z |-> vegZ,
                                          scale |-> cell.config.scale.min,
                                          rotY |-> Random(cell.seed, s.draws + 4) ]),
                    attempts |-> s.attempts + 1, draws |-> s.draws + 4 ]

\* one turn of a placement loop without the height check
PlaceStep_NoHeightCheck(cell, s) ==
    IF ~(Len(s.matrices) < cell.count /\ s.attempts < cell.maxAttempts) THEN s
    ELSE LET span == HalfMetres(cell.minTileSize)
             vegX == cell.minX + (Random(cell.seed, s.draws + 1) * span) \div 64
             vegZ == cell.minZ + (Random(cell.seed, s.draws + 2) * span) \div 64
             vegY == getWorldHeight(cell.terrainHelpers, vegX, vegZ)
             normal == getNormal(cell.terrainHelpers, vegX, vegZ)
         IN  IF \/ NormalYLess(normal, RatSub(Num(1), cell.config.slope.max))
                \/ NormalYGreater(normal, RatSub(Num(1), cell.config.slope.min))
             THEN [ s EXCEPT !.attempts = @ + 1, !.draws = @ + 2 ]
             ELSE [ matrices |-> Append(s.matrices,
                                        [ x |-> vegX, y |-> vegY, z |-> vegZ,
                                          scale |-> cell.config.scale.min,
                                          rotY |-> Random(cell.seed, s.draws + 4) ]),
                    attempts |-> s.attempts + 1, draws |-> s.draws + 4 ]

\* one turn of the while loop of generateCellVegetation, the test of the
\* loop included: s holds the matrices array, the counter attempts and the
\* number of draws made so far; coordinates in half-metres
PlaceStep(cell, s) ==
    IF ~(Len(s.matrices) < cell.count /\ s.attempts < cell.maxAttempts) THEN s
    ELSE LET span == HalfMetres(cell.minTileSize)
             vegX == cell.minX + (Random(cell.seed, s.draws + 1) * span) \div 64
             vegZ == cell.minZ + (Random(cell.seed, s.draws + 2) * span) \div 64
             vegY == getWorldHeight(cell.terrainHelpers, vegX, vegZ)
             normal == getNormal(cell.terrainHelpers, vegX, vegZ)
             slopeMinNormalY == RatSub(Num(1), cell.config.slope.max)
             slopeMaxNormalY == RatSub(Num(1), cell.config.slope.min)
             vegScale == RatAdd(cell.config.scale.min,
                                RatMul(Rat(Random(cell.seed, s.draws + 3), 64),
                                       RatSub(cell.config.scale.max, cell.config.scale.min)))
             rotY == Random(cell.seed, s.draws + 4)
         IN  IF RatLess(vegY, cell.config.height.min) \/ RatLess(cell.config.height.max, vegY)
             THEN [ s EXCEPT !.attempts = @ + 1, !.draws = @ + 2 ]
             ELSE IF NormalYLess(normal, slopeMinNormalY) \/ NormalYGreater(normal, slopeMaxNormalY)
             THEN [ s EXCEPT !.attempts = @ + 1, !.draws = @ + 2 ]
             ELSE [ matrices |-> Append(s.matrices,
                                        [ x |-> vegX, y |-> vegY, z |-> vegZ,
                                          scale |-> vegScale, rotY |-> rotY ]),
                    attempts |-> s.attempts + 1, draws |-> s.draws + 4 ]

\* n turns of the loop (n >= 1), the first half of them before the second
RECURSIVE PlaceLoop(_, _, _)
PlaceLoop(cell, s, n) ==
    IF n <= 1 THEN PlaceStep(cell, s)
    ELSE CHOOSE y \in { PlaceLoop(cell, t, n - (n \div 2)) :
                         t \in { PlaceLoop(cell, s, n \div 2) } } : TRUE

\* the while loop of generateCellVegetation: it leaves at the first turn
\* whose test fails, which is within maxAttempts turns.  The value holds the
\* matrices array and the counter attempts as the loop leaves them.
PlaceVegetation(cell, matrices, attempts, draws) ==
    PlaceLoop(cell, [ matrices |-> matrices, attempts |-> attempts, draws |-> draws ],
              cell.maxAttempts - attempts)

\* the count of instances generateCellVegetation aims at for a cell, with
\* the seed of the cell's stream and the two draws the count is made from
CellCount(cellX, cellZ, config, typeIndex, cellSize) ==
    LET gridX == FloorDiv(cellX, HalfMetres(cellSize))
        gridZ == FloorDiv(cellZ, HalfMetres(cellSize))
        cellSeed == hashCoords(gridX, gridZ, 88888 + typeIndex * 1000)
        cellArea == cellSize * cellSize
        expectedCount == Rat((IF config.density = 0 THEN 1 ELSE config.density) * cellArea,
                             1000000)
        targetCount == RatMul(expectedCount,
                              RatAdd(Rat(4, 5), RatMul(Rat(Random(cellSeed, 1), 64), Rat(2, 5))))
        floorCount == RatFloor(targetCount)
        count == IF RatLess(Rat(Random(cellSeed, 2), 64), RatSub(targetCount, Num(floorCount)))
                 THEN floorCount + 1 ELSE floorCount
    IN  [ seed |-> cellSeed, expectedCount |-> expectedCount, targetCount |-> targetCount,
          count |-> count ]

\* one call of generateCellVegetation with the values its locals have when
\* it returns; cellX and cellZ in half-metres
CellRecord(cellX, cellZ, c, placed) ==
    [ cellX |-> cellX, cellZ |-> cellZ, seed |-> c.seed,
      expectedCount |-> c.expectedCount, targetCount |-> c.targetCount,
      count |-> c.count, attempts |-> placed.attempts, matrices |-> placed.matrices ]

\* if (count === 0) return matrices, and the loop otherwise
CellPlacement(cellX, cellZ, terrainHelpers, config, cellSize, c) ==
    IF c.count = 0 THEN [ matrices |-> <<>>, attempts |-> 0 ]
    ELSE PlaceVegetation([ minX |-> cellX - cellSize, minZ |-> cellZ - cellSize,
                           seed |-> c.seed, count |-> c.count,
                           maxAttempts |-> c.count * 10,
                           minTileSize |-> cellSize,
                           terrainHelpers |-> terrainHelpers,
                           config |-> config ],
                         <<>>, 0, 2)

CellWithCount(cellX, cellZ, terrainHelpers, config, cellSize, c) ==
    CellRecord(cellX, cellZ, c,
               CellPlacement(cellX, cellZ, terrainHelpers, config, cellSize, c))

CellVegetation(cellX, cellZ, terrainHelpers, config, typeIndex, cellSize) ==
    CellWithCount(cellX, cellZ, terrainHelpers, config, cellSize,
                  CellCount(cellX, cellZ, config, typeIndex, cellSize))

\* generateCellVegetation: the matrices it returns
generateCellVegetation(cellX, cellZ, terrainHelpers, config, typeIndex, cellSize) ==
    CellVegetation(cellX, cellZ, terrainHelpers, config, typeIndex, cellSize).matrices

\* Math.round(size / cellSize) for positive integers
CellsPerSide(size, cellSize) == (2 * size + cellSize) \div (2 * cellSize)

\* the calls of generateCellVegetation that generateVegetationForType makes
\* for a tile, in the order of its loops
TileCells(node, terrainHelpers, config, typeIndex, cellSize) ==
    LET cellsPerSide == CellsPerSide(node.size, cellSize)
        minX == HalfMetres(node.centerX) - node.size
        minZ == HalfMetres(node.centerZ) - node.size
    IN  [ n \in 1..(cellsPerSide * cellsPerSide) |->
            CellVegetation(minX + (2 * ((n - 1) \div cellsPerSide) + 1) * cellSize,
                           minZ + (2 * ((n - 1) % cellsPerSide) + 1) * cellSize,
                           terrainHelpers, config, typeIndex, cellSize) ]

\* matrices.push(...cellMatrices) for the cells from number n on
RECURSIVE CellsFrom(_, _)
CellsFrom(n, cells) ==
    IF n > Len(cells) THEN <<>> ELSE cells[n].matrices \o CellsFrom(n + 1, cells)

\* generateVegetationForType with the calls of generateCellVegetation it
\* makes; minTileSize is read from the store
VegetationOfCells(cells) == [ cells |-> cells, matrices |-> CellsFrom(1, cells) ]

VegetationForType(node, terrainHelpers, lodLevel, vegetationTypeConfig, typeIndex) ==
    VegetationOfCells(TileCells(node, terrainHelpers, vegetationTypeConfig, typeIndex,
                                minTileSize))

\* generateVegetationForType: the matrices it returns
generateVegetationForType(node, terrainHelpers, lodLevel, vegetationTypeConfig, typeIndex) ==
    VegetationForType(node, terrainHelpers, lodLevel, vegetationTypeConfig, typeIndex).matrices

\* the highest LOD level a factory-made vegetation type has meshes for
maxAvailableLod == 3

\* the instances generated for a tile, with the values they were made from
VegetationRecord(node, typeIndex, config, generated) ==
    [ node |-> node, typeIndex |-> typeIndex, config |-> config,
      minTileSize |-> minTileSize, seed |-> seed,
      terrainHelpers |-> getTerrainHelpers,
      cells |-> generated.cells, matrices |-> generated.matrices ]

\* the vegetation component generates the instances of one leaf tile, when
\* the LOD level it selects for the tile is within the type's maxLod; the
\* model follows one tile per behaviour
GenerateVegetation(k, typeIndex) ==
    LET node == leafTiles[k].node
        config == vegetationTypes[typeIndex + 1]
        actualLod == IF node.lod > maxAvailableLod THEN maxAvailableLod ELSE node.lod
    IN  /\ vegetation = <<>>
        /\ actualLod <= config.maxLod
        /\ vegetation' = << VegetationRecord(node, typeIndex, config,
                                             VegetationForType(node, getTerrainHelpers,
                                                               actualLod, config,
                                                               typeIndex)) >>
        /\ UNCHANGED <<lodVars, terrainStoreVars, appVars, samplers, samples, waterQueries, geometry>>

\* the tiles whose vegetation is generated in the model: a strip through
\* the viewer's position
VegetationRangeX == 120
VegetationRangeZ == 16

InVegetationRange(node) ==
    /\ Abs(node.centerX - cycle.camX) <= VegetationRangeX
    /\ Abs(node.centerZ - cycle.camZ) <= VegetationRangeZ

NextGenerateVegetation ==
    \E k \in 1..Len(leafTiles) :
        InVegetationRange(leafTiles[k].node) /\ GenerateVegetation(k, 0)

\* the first LOD recompute with the viewer in the spawn area
SpawnPositions == { <<8, 20>> }

NextMountAtSpawn ==
    \E p \in SpawnPositions : ~cycle.ran /\ Frame(p[1], p[2], UpdateInterval)

\* the vegetation of one leaf tile for one type of the store's list
NextPlaceVegetation ==
    \E k \in 1..Len(leafTiles), typeIndex \in 0..(Len(vegetationTypes) - 1) :
        InVegetationRange(leafTiles[k].node) /\ GenerateVegetation(k, typeIndex)

(***************************************************************************)
(* The loading flag: useLoadingManager and the store's sceneLoaded         *)
(***************************************************************************)

\* the loading events recorded per behaviour
MaxLoadEvents == 6

\* the callback of setTimeout(() => isLoading.current && setSceneLoaded(false), 0),
\* without the test of isLoading.current
TimeoutCallback_Unguarded(loading, loaded) == FALSE

\* the callback of setTimeout(() => isLoading.current && setSceneLoaded(false), 0):
\* the value of sceneLoaded after it has run
TimeoutCallback(loading, loaded) == IF loading THEN FALSE ELSE loaded

setSceneLoaded(loaded) == sceneLoaded' = loaded

\* DefaultLoadingManager.onStart
onStart ==
    /\ handlers
    /\ Len(loadLog) < MaxLoadEvents
    /\ isLoading' = TRUE
    /\ timers' = timers + 1
    /\ loadLog' = Append(loadLog, "onStart")
    /\ UNCHANGED <<sceneLoaded, handlers>>
    /\ UNCHANGED <<lodVars, nonLodVars, terrainTile, presetVars>>

\* DefaultLoadingManager.onLoad
onLoad ==
    /\ handlers
    /\ Len(loadLog) < MaxLoadEvents
    /\ isLoading' = FALSE
    /\ setSceneLoaded(TRUE)
    /\ loadLog' = Append(loadLog, "onLoad")
    /\ UNCHANGED <<timers, handlers>>
    /\ UNCHANGED <<lodVars, nonLodVars, terrainTile, presetVars>>

\* one pending zero-delay timer of an onStart fires
NextTimeout ==
    /\ timers > 0
    /\ timers' = timers - 1
    /\ setSceneLoaded(TimeoutCallback(isLoading, sceneLoaded))
    /\ loadLog' = Append(loadLog, "timeout")
    /\ UNCHANGED <<isLoading, handlers>>
    /\ UNCHANGED <<lodVars, nonLodVars, terrainTile, presetVars>>

\* the cleanup of the effect: the handlers are removed, the timers stay
NextLoadingCleanup ==
    /\ handlers
    /\ handlers' = FALSE
    /\ UNCHANGED <<sceneLoaded, isLoading, timers, loadLog>>
    /\ UNCHANGED <<lodVars, nonLodVars, terrainTile, presetVars>>

(***************************************************************************)
(* The geometries of one terrain tile: TerrainTile and useGeometryDisposal *)
(***************************************************************************)

\* the renders of the tile per behaviour
MaxRenders == 5

\* a geometry reference that is null
NoGeometry == 0

\* the deps of an effect that has not run yet
NoEffect == -1

\* the tile before its first render
NoTile ==
    [ phase |-> "new", pending |-> FALSE, renders |-> 0,
      terrainGeometry |-> NoGeometry, waterGeometry |-> NoGeometry,
      terrainGeometryRef |-> NoGeometry, waterGeometryRef |-> NoGeometry,
      terrainEffect |-> NoEffect, waterEffect |-> NoEffect,
      geometries |-> <<>> ]

\* geometry.dispose(): the calls are counted per geometry
Dispose(geometries, g) == [ geometries EXCEPT ![g].disposed = @ + 1 ]

\* the cleanup of the effect, without the call of dispose
GeometryCleanup_NoDispose(ref, geometries) ==
    [ ref |-> NoGeometry, geometries |-> geometries ]

\* the cleanup of the effect of useGeometryDisposal
GeometryCleanup(ref, geometries) ==
    IF ref # NoGeometry
    THEN [ ref |-> NoGeometry, geometries |-> Dispose(geometries, ref) ]
    ELSE [ ref |-> ref, geometries |-> geometries ]

\* the body of the effect of useGeometryDisposal
GeometryEffect(ref, geom, geometries) ==
    [ ref |-> geom,
      geometries |-> IF ref # NoGeometry /\ ref # geom
                     THEN Dispose(geometries, ref)
                     ELSE geometries ]

\* useEffect(..., [geometry]) runs when the tile has mounted or the
\* geometry is not the one of the effect's last run
EffectRuns(effect, geom) == effect = NoEffect \/ effect # geom

\* the render and commit of the tile: useTerrainGeometry's memo makes a new
\* terrain geometry and a new water geometry or none, and the meshes get them
RenderTile(withWater) ==
    LET terrainGeom == Len(terrainTile.geometries) + 1
        waterGeom == IF withWater THEN terrainGeom + 1 ELSE NoGeometry
        created == IF withWater
                   THEN << [ kind |-> "terrain", disposed |-> 0 ],
                           [ kind |-> "water", disposed |-> 0 ] >>
                   ELSE << [ kind |-> "terrain", disposed |-> 0 ] >>
    IN  /\ terrainTile.phase \in { "new", "mounted" }
        /\ ~terrainTile.pending
        /\ terrainTile.renders < MaxRenders
        /\ terrainTile' = [ terrainTile EXCEPT !.phase = "mounted", !.pending = TRUE,
                                 !.renders = @ + 1,
                                 !.terrainGeometry = terrainGeom,
                                 !.waterGeometry = waterGeom,
                                 !.geometries = @ \o created ]
        /\ UNCHANGED <<lodVars, nonLodVars, loadingVars, presetVars>>

NextRenderTile == \E withWater \in BOOLEAN : RenderTile(withWater)

\* the passive effects of the last commit: the cleanups of the effects
\* whose geometry changed, then their bodies
NextTileEffects ==
    LET runTerrain == EffectRuns(terrainTile.terrainEffect, terrainTile.terrainGeometry)
        runWater == EffectRuns(terrainTile.waterEffect, terrainTile.waterGeometry)
        c1 == IF runTerrain /\ terrainTile.terrainEffect # NoEffect
              THEN GeometryCleanup(terrainTile.terrainGeometryRef, terrainTile.geometries)
              ELSE [ ref |-> terrainTile.terrainGeometryRef, geometries |-> terrainTile.geometries ]
        c2 == IF runWater /\ terrainTile.waterEffect # NoEffect
              THEN GeometryCleanup(terrainTile.waterGeometryRef, c1.geometries)
              ELSE [ ref |-> terrainTile.waterGeometryRef, geometries |-> c1.geometries ]
        e1 == IF runTerrain
              THEN GeometryEffect(c1.ref, terrainTile.terrainGeometry, c2.geometries)
              ELSE [ ref |-> c1.ref, geometries |-> c2.geometries ]
        e2 == IF runWater
              THEN GeometryEffect(c2.ref, terrainTile.waterGeometry, e1.geometries)
              ELSE [ ref |-> c2.ref, geometries |-> e1.geometries ]
    IN  /\ terrainTile.phase = "mounted"
        /\ terrainTile.pending
        /\ terrainTile' = [ terrainTile EXCEPT !.pending = FALSE,
                                 !.terrainGeometryRef = e1.ref,
                                 !.waterGeometryRef = e2.ref,
                                 !.terrainEffect = terrainTile.terrainGeometry,
                                 !.waterEffect = terrainTile.waterGeometry,
                                 !.geometries = e2.geometries ]
        /\ UNCHANGED <<lodVars, nonLodVars, loadingVars, presetVars>>

\* the tile leaves the render set: the cleanups of both effects run
NextUnmountTile ==
    LET c1 == GeometryCleanup(terrainTile.terrainGeometryRef, terrainTile.geometries)
        c2 == GeometryCleanup(terrainTile.waterGeometryRef, c1.geometries)
    IN  /\ terrainTile.phase = "mounted"
        /\ ~terrainTile.pending
        /\ terrainTile' = [ terrainTile EXCEPT !.phase = "unmounted",
                                 !.terrainGeometryRef = c1.ref,
                                 !.waterGeometryRef = c2.ref,
                                 !.geometries = c2.geometries ]
        /\ UNCHANGED <<lodVars, nonLodVars, loadingVars, presetVars>>

(***************************************************************************)
(* store/terrainStore: presets, notifications and applyPreset              *)
(***************************************************************************)

\* the calls of applyPreset and applyPresetById per behaviour
MaxPresetCalls == 2

\* numbers with decimals are rationals <<num, den>>, direction arrays are
\* in thousandths, colours, layers and vegetation lists are their literals

\* src/presets/winter.js
winterPreset ==
    [ name |-> "Winter",
      description |-> "Snow-covered terrain with cold, crisp atmosphere",
      sunDirection |-> <<300, 250, 500>>,
      sunColor |-> << <<935, 1000>>, <<956, 1000>>, <<965, 1000>> >>,
      skyColorZenith |-> << <<300, 1000>>, <<508, 1000>>, <<700, 1000>> >>,
      skyColorHorizon |-> << <<8960, 10000>>, <<9296, 10000>>, <<9440, 10000>> >>,
      seed |-> 9012,
      baseHeightScale |-> <<9, 2>>,
      continentScale |-> <<7, 100000>>,
      noiseScale |-> <<35, 1000>>,
      mountainScale |-> <<8, 10000>>,
      maxMountainHeight |-> 500,
      spawnRadius |-> 200,
      spawnTransitionRadius |-> 2500,
      layers |-> << "snow", "dunes" >>,
      vegetation |-> <<>>,
      vegetationEnabled |-> FALSE,
      vegetationDensity |-> <<0, 1>>,
      waterEnabled |-> TRUE,
      waterLevel |-> 0,
      waterMaxDepth |-> 50,
      waterShorelineDepthThreshold |-> <<5, 2>>,
      waterShallowDepthThreshold |-> <<20, 1>>,
      waterMaxVisibleDepth |-> <<12, 1>>,
      waterEdgeFadeDistance |-> <<1, 10>>,
      waterColor |-> << <<0, 1>>, <<5, 100>>, <<15, 100>> >> ]

\* src/presets/desert.js: a name, a description and an apply function
desertPreset ==
    [ name |-> "Desert",
      description |-> "A hot, arid environment with sandy terrain and minimal vegetation.",
      apply |-> "function" ]

\* src/presets/mountain.js: a name, a description and an apply function
mountainPreset ==
    [ name |-> "Mountain",
      description |-> "A cold, rugged environment with high elevations and sparse vegetation.",
      apply |-> "function" ]

BIOME_PRESETS ==
    [ desert |-> desertPreset, mountain |-> mountainPreset, winter |-> winterPreset ]

\* undefined, as an object without properties
Undefined == <<>>

\* BIOME_PRESETS[presetId]: an own property, a property inherited from
\* Object.prototype (a function, with a name and a length), or undefined
PresetLookup(presetId) ==
    IF presetId \in DOMAIN BIOME_PRESETS
    THEN [ found |-> TRUE, preset |-> BIOME_PRESETS[presetId] ]
    ELSE IF presetId = "constructor"
    THEN [ found |-> TRUE, preset |-> [ name |-> "Object", length |-> 1 ] ]
    ELSE [ found |-> FALSE, preset |-> Undefined ]

\* the ids passed to applyPresetById
PresetIds == { "desert", "winter", "tundra", "constructor" }

\* configuration objects a caller passes to applyPreset besides the biome
\* presets: each defines some of the fields
CallerPresets ==
    { [ seed |-> 5678, baseHeightScale |-> 6, sunDirection |-> <<0, 0, 0>> ],
      [ waterLevel |-> 2, waterEnabled |-> FALSE, vegetation |-> << "grass" >>,
        sunDirection |-> <<0, 500, 0>> ] }

\* notification: null
NoNotification == <<>>

\* the times Date.now() returns to showNotification
NotificationTimes == { 1700000000 }

\* utils/vectorHelpers normalizeDirection: the vector of length 1 along
\* arr, written by the smallest integer vector of its direction
normalizeDirection(arr) ==
    LET lenSq == arr[1] * arr[1] + arr[2] * arr[2] + arr[3] * arr[3]
        g == Gcd(Gcd(Abs(arr[1]), Abs(arr[2])), Abs(arr[3]))
    IN  IF lenSq > 0
        THEN [ unit |-> << arr[1] \div g, arr[2] \div g, arr[3] \div g >> ]
        ELSE [ unit |-> <<0, 1, 0>> ]

\* the fields applyPreset copies, in the order of its tests
PresetFields ==
    << "sunDirection", "sunColor", "skyColorZenith", "skyColorHorizon",
       "seed", "baseHeightScale", "continentScale", "noiseScale", "mountainScale",
       "maxMountainHeight", "spawnRadius", "spawnTransitionRadius", "layers",
       "vegetation", "vegetationEnabled", "vegetationDensity",
       "waterEnabled", "waterLevel", "waterMaxDepth", "waterShorelineDepthThreshold",
       "waterShallowDepthThreshold", "waterMaxVisibleDepth", "waterEdgeFadeDistance",
       "waterColor" >>

PresetFieldSet == { PresetFields[n] : n \in 1..Len(PresetFields) }

\* the value applyPreset puts in updates for a field of the preset
UpdateValue(preset, f) ==
    IF f = "sunDirection" THEN normalizeDirection(preset[f]) ELSE preset[f]

\* updates of applyPreset that also hold the initial LOD settings
PresetUpdates_WithLodSettings(preset) ==
    [ f \in { g \in PresetFieldSet : g \in DOMAIN preset } \cup { "lodSplitFactor" } |->
        IF f = "lodSplitFactor" THEN <<2, 1>> ELSE UpdateValue(preset, f) ]

\* const updates = {} and the tests of applyPreset: one entry per field
\* the preset defines
PresetUpdates(preset) ==
    [ f \in { g \in PresetFieldSet : g \in DOMAIN preset } |-> UpdateValue(preset, f) ]

\* the fields of the store's state kept in the variable store
OtherStoreFields ==
    { "performanceDegraded", "notification",
      "sunDirection", "sunColor", "skyColorZenith", "skyColorHorizon",
      "continentScale", "noiseScale", "mountainScale", "maxMountainHeight",
      "layers", "vegetation", "vegetationEnabled", "vegetationDensity",
      "waterEnabled", "waterMaxDepth", "waterShorelineDepthThreshold",
      "waterShallowDepthThreshold", "waterMaxVisibleDepth", "waterEdgeFadeDistance",
      "waterColor" }

\* the fields of the store's state that are variables of their own
OwnStoreFields ==
    { "sceneLoaded", "seed", "baseHeightScale", "spawnRadius", "spawnTransitionRadius",
      "waterLevel", "lodSplitFactor", "lodHysteresis", "minTileSize", "rootSize",
      "tileResolution" }

StoreFields == OwnStoreFields \cup OtherStoreFields

\* get(): the store's state
StoreState ==
    [ f \in StoreFields |->
        CASE f = "sceneLoaded" -> sceneLoaded
          [] f = "seed" -> seed
          [] f = "baseHeightScale" -> baseHeightScale
          [] f = "spawnRadius" -> spawnRadius
          [] f = "spawnTransitionRadius" -> spawnTransitionRadius
          [] f = "waterLevel" -> waterLevel
          [] f = "lodSplitFactor" -> lodSplitFactor
          [] f = "lodHysteresis" -> lodHysteresis
          [] f = "minTileSize" -> minTileSize
          [] f = "rootSize" -> rootSize
          [] f = "tileResolution" -> tileResolution
          [] OTHER -> store[f] ]

\* set(partial) of the store: the entries of partial replace the fields of
\* their names, every other field keeps its value
Merged(state, partial) ==
    [ f \in DOMAIN state |-> IF f \in DOMAIN partial THEN partial[f] ELSE state[f] ]

SetState(partial) ==
    LET next == Merged(StoreState, partial)
    IN  /\ sceneLoaded' = next.sceneLoaded
        /\ seed' = next.seed
        /\ baseHeightScale' = next.baseHeightScale
        /\ spawnRadius' = next.spawnRadius
        /\ spawnTransitionRadius' = next.spawnTransitionRadius
        /\ waterLevel' = next.waterLevel
        /\ lodSplitFactor' = next.lodSplitFactor
        /\ lodHysteresis' = next.lodHysteresis
        /\ minTileSize' = next.minTileSize
        /\ rootSize' = next.rootSize
        /\ tileResolution' = next.tileResolution
        /\ store' = [ f \in OtherStoreFields |-> next[f] ]

\* what a store action leaves alone besides the store's state
nonStoreVars == <<frameVars, edits, builtVars, isLoading, timers, handlers, loadLog,
                  terrainTile>>

applyPreset(preset) == SetState(PresetUpdates(preset))

NoPresetCall == [ count |-> 0, action |-> "none", id |-> "none", found |-> FALSE,
                  preset |-> Undefined ]

NextApplyPreset ==
    \E id \in { "winter", "caller" } :
        \E preset \in IF id = "caller" THEN CallerPresets ELSE { BIOME_PRESETS[id] } :
            /\ presetCall.count < MaxPresetCalls
            /\ applyPreset(preset)
            /\ presetCall' = [ count |-> presetCall.count + 1, action |-> "applyPreset",
                               id |-> id, found |-> TRUE, preset |-> preset ]
            /\ UNCHANGED nonStoreVars

applyPresetById(presetId) ==
    LET lookup == PresetLookup(presetId)
    IN  /\ IF lookup.found
           THEN applyPreset(lookup.preset)
           ELSE UNCHANGED <<storeLodVars, terrainStoreVars, sceneLoaded, store>>
        /\ presetCall' = [ count |-> presetCall.count + 1, action |-> "applyPresetById",
                           id |-> presetId, found |-> lookup.found,
                           preset |-> lookup.preset ]
        /\ UNCHANGED nonStoreVars

NextApplyPresetById ==
    \E presetId \in PresetIds :
        presetCall.count < MaxPresetCalls /\ applyPresetById(presetId)

\* showNotification(notificationData)
NextShowNotification ==
    \E now \in NotificationTimes :
        /\ store.notification = NoNotification
        /\ store' = [ store EXCEPT !.notification =
                                      << [ message |-> "Loading", id |-> now ] >> ]
        /\ UNCHANGED <<lodVars, nonLodVars, loadingVars, terrainTile, presetCall>>

\* hideNotification()
NextHideNotification ==
    /\ store.notification # NoNotification
    /\ store' = [ store EXCEPT !.notification = NoNotification ]
    /\ UNCHANGED <<lodVars, nonLodVars, loadingVars, terrainTile, presetCall>>

\* setPerformanceDegraded(degraded)
NextSetPerformanceDegraded ==
    /\ store' = [ store EXCEPT !.performanceDegraded = ~@ ]
    /\ UNCHANGED <<lodVars, nonLodVars, loadingVars, terrainTile, presetCall>>

\* the store's initial values of the fields kept in the variable store:
\* those of the desert preset
InitialStore ==
    [ performanceDegraded |-> FALSE,
      notification |-> NoNotification,
      sunDirection |-> normalizeDirection(<<545, 365, 400>>),
      sunColor |-> [ hsl |-> << <<1, 10>>, <<1, 1>>, <<93, 100>> >> ],
      skyColorZenith |-> [ hsl |-> << <<58, 100>>, <<57, 100>>, <<59, 100>> >> ],
      skyColorHorizon |-> [ hsl |-> << <<58, 100>>, <<67, 100>>, <<85, 100>> >> ],
      continentScale |-> <<7, 100000>>,
      noiseScale |-> <<4, 100>>,
      mountainScale |-> <<1, 1000>>,
      maxMountainHeight |-> maxMountainHeight,
      layers |-> << "rock", "sand", "snow" >>,
      vegetation |-> << "grass" >>,
      vegetationEnabled |-> TRUE,
      vegetationDensity |-> <<1, 1>>,
      waterEnabled |-> TRUE,
      waterMaxDepth |-> waterMaxDepth,
      waterShorelineDepthThreshold |-> <<5, 2>>,
      waterShallowDepthThreshold |-> <<20, 1>>,
      waterMaxVisibleDepth |-> <<8, 1>>,
      waterEdgeFadeDistance |-> <<1, 10>>,
      waterColor |-> << <<0, 1>>, <<12, 100>>, <<6, 100>> >> ]

Init ==
    /\ rootSize = 4096
    /\ minTileSize = 32
    /\ tileResolution = 16
    /\ lodSplitFactor = <<2, 1>>
    /\ lodHysteresis = <<6, 5>>
    /\ clock = 0
    /\ lastUpdatePosition = <<>>
    /\ lastUpdateTime = 0
    /\ quadtreeRoots = <<>>
    /\ leafTiles = <<>>
    /\ cycle = NoCycle
    /\ edits = 0
    /\ seed = 1234
    /\ spawnRadius = 200
    /\ waterLevel = 0
    /\ baseHeightScale = 4
    /\ spawnTransitionRadius = 2500
    /\ samplers = <<>>
    /\ samples = <<>>
    /\ waterQueries = <<>>
    /\ geometry = <<>>
    /\ vegetation = <<>>
    /\ sceneLoaded = FALSE
    /\ isLoading = FALSE
    /\ timers = 0
    /\ handlers = TRUE
    /\ loadLog = <<>>
    /\ terrainTile = NoTile
    /\ store = InitialStore
    /\ presetCall = NoPresetCall

Next ==
    \/ NextFrame
    \/ NextSetRootSize
    \/ NextSetMinTileSize
    \/ NextSetTileResolution
    \/ NextSetLodSplitFactor
    \/ NextSetLodHysteresis

Spec == Init /\ [][Next]_vars

\* the loading manager's events and the timers of onStart, in any order
NextLoading ==
    \/ onStart
    \/ onLoad
    \/ NextTimeout
    \/ NextLoadingCleanup

LoadingSpec == Init /\ [][NextLoading]_vars

\* the life of one terrain tile: renders, their effects, and the unmount
NextTileLifecycle ==
    \/ NextRenderTile
    \/ NextTileEffects
    \/ NextUnmountTile

TileLifecycleSpec == Init /\ [][NextTileLifecycle]_vars

\* presets applied between edits of the LOD settings, notifications and the
\* end of loading
NextPreset ==
    \/ NextApplyPreset
    \/ NextApplyPresetById
    \/ NextShowNotification
    \/ NextHideNotification
    \/ NextSetPerformanceDegraded
    \/ NextSetLodSplitFactor
    \/ onLoad

PresetSpec == Init /\ [][NextPreset]_vars

\* the LOD manager while the viewer goes back and forth
NextPublication ==
    \/ NextFrameBack
    \/ NextSetLodSplitFactor
    \/ NextSetLodHysteresis

PublicationSpec == Init /\ [][NextPublication]_vars

\* the height samplers alone
NextSampler ==
    \/ NextSetSeed
    \/ NextSetSpawnRadius
    \/ NextCreateHeightSampler
    \/ NextCreateTerrainHelpers
    \/ NextSample

SamplerSpec == Init /\ [][NextSampler]_vars

\* the height samplers under changes of the scale and of the spawn radii
NextConfig ==
    \/ NextSetBaseHeightScale
    \/ NextSetSpawnTransitionRadius
    \/ NextCreateHeightSampler
    \/ NextCreateTerrainHelpers
    \/ NextSample

ConfigSpec == Init /\ [][NextConfig]_vars

\* the height samplers around the spawn transition under changes of the two
\* spawn radii
NextTransition ==
    \/ NextSetSpawnRadius
    \/ NextSetSpawnTransitionRadius
    \/ NextCreateHeightSampler
    \/ NextSampleTransition

TransitionSpec == Init /\ [][NextTransition]_vars

\* the water queries under changes of the water level and the spawn radius
NextWater ==
    \/ NextSetWaterLevel
    \/ NextSetSpawnRadius
    \/ NextCreateHeightSampler
    \/ NextCreateTerrainHelpers
    \/ NextIsWater

WaterSpec == Init /\ [][NextWater]_vars

\* the tiles of the first LOD cycle and their meshes
NextTile ==
    \/ NextMount
    \/ NextSetWaterLevel
    \/ NextSetTileResolution
    \/ NextBuildTile

TileSpec == Init /\ [][NextTile]_vars

\* the tiles of the first LOD cycle and their vegetation
NextVegetation ==
    \/ NextMountAtSpawn
    \/ NextSetRootSize
    \/ NextSetMinTileSize
    \/ NextGenerateVegetation

VegetationSpec == Init /\ [][NextVegetation]_vars

\* the placement of the vegetation types in the cells of the first LOD cycle
NextPlacement ==
    \/ NextMountAtSpawn
    \/ NextSetSpawnRadius
    \/ NextSetMinTileSize
    \/ NextPlaceVegetation

PlacementSpec == Init /\ [][NextPlacement]_vars

(***************************************************************************)
(* Properties of the quadtree LOD manager                                  *)
(***************************************************************************)
\* what collectLeaves gathers from the roots of the current state
CollectedNow == CollectRoots(quadtreeRoots, 1, EmptyCollection)

\* every node reachable from the roots
RECURSIVE NodesOf(_)
NodesOf(node) ==
    IF node.children = <<>> THEN { node }
    ELSE { node } \cup NodesOf(node.children[1]) \cup NodesOf(node.children[2])
                  \cup NodesOf(node.children[3]) \cup NodesOf(node.children[4])

ReachableNodes == UNION { NodesOf(quadtreeRoots[i].root) : i \in 1..Len(quadtreeRoots) }

\* the viewer distance is strictly between the split and the merge threshold
Between(node, viewerX, viewerZ, splitFactor, hysteresis) ==
    /\ GreaterThanSq(DistSq(node, viewerX, viewerZ), node.size * splitFactor[1], splitFactor[2])
    /\ LessThanSq(DistSq(node, viewerX, viewerZ),
                  node.size * splitFactor[1] * hysteresis[1],
                  splitFactor[2] * hysteresis[2])

\* the node as it was when update was called on it: the root stored under
\* the key before the frame, a fresh leaf when the frame created it
RootBefore(entry) ==
    IF HasRoot(quadtreeRoots, entry.key)
    THEN quadtreeRoots[CHOOSE i \in 1..Len(quadtreeRoots) : quadtreeRoots[i].key = entry.key].root
    ELSE [ entry.root EXCEPT !.children = <<>> ]

\* old is a node when update is called on it, new the node when update
\* returns; the calls on the children are followed
RECURSIVE KeepsState(_, _, _, _, _, _)
KeepsState(old, new, viewerX, viewerZ, splitFactor, hysteresis) ==
    /\ Between(old, viewerX, viewerZ, splitFactor, hysteresis)
         => ((old.children = <<>>) <=> (new.children = <<>>))
    /\ new.children # <<>> =>
         \A i \in 1..4 :
            KeepsState(IF old.children # <<>> THEN old.children[i]
                       ELSE [ new.children[i] EXCEPT !.children = <<>> ],
                       new.children[i], viewerX, viewerZ, splitFactor, hysteresis)

\* C1: split/merge hysteresis.  In every update call of every LOD recompute,
\* a node whose centre is at a viewer distance strictly between the split
\* threshold (size x splitFactor) and the merge threshold (size x splitFactor
\* x hysteresis) keeps its state: a leaf stays a leaf, a subdivided node
\* stays subdivided.  Holding at every call, it holds for any number of calls.
C1_Hysteresis ==
    [][ lastUpdateTime' # lastUpdateTime =>
          \A i \in 1..Len(quadtreeRoots') :
             KeepsState(RootBefore(quadtreeRoots'[i]), quadtreeRoots'[i].root,
                        cycle'.camX, cycle'.camZ, lodSplitFactor, lodHysteresis) ]_vars

\* after a second recompute with hysteresis > 1, a subdivided node and a
\* leaf that could still split are both strictly between their thresholds
C1_Witness ==
    /\ cycle.count >= 2
    /\ cycle.hysteresis[1] > cycle.hysteresis[2]
    /\ \E n \in ReachableNodes :
          /\ n.children # <<>>
          /\ Between(n, cycle.camX, cycle.camZ, cycle.splitFactor, cycle.hysteresis)
    /\ \E n \in ReachableNodes :
          /\ n.children = <<>>
          /\ n.size > cycle.minTileSize
          /\ Between(n, cycle.camX, cycle.camZ, cycle.splitFactor, cycle.hysteresis)

\* the frame with the camera at p and the clock at now triggers a recompute:
\* 0.1 s (100 ms) have passed since the previous recompute, and there was no
\* recompute yet or the viewer is at least minTileSize away from the
\* position of the previous one
Triggers(p, now) ==
    /\ now - lastUpdateTime >= 100
    /\ \/ cycle.count = 0
       \/ LET dx == p[1] - cycle.camX
              dz == p[2] - cycle.camZ
          IN  dx * dx + dz * dz >= minTileSize * minTileSize

\* C14: LOD recompute trigger.  At every frame a LOD recompute runs if and
\* only if at least 0.1 s of clock time has passed since the previous
\* recompute and either no recompute has happened yet or the viewer is at
\* least minTileSize (horizontally) from the position of the previous
\* recompute; a recompute records the frame's time and position.
C14_RecomputeTrigger ==
    [][ clock' # clock =>
          \A p \in CameraPositions :
             Frame(p[1], p[2], clock') =>
                /\ (cycle'.count = cycle.count + 1) <=> Triggers(p, clock')
                /\ (cycle'.count = cycle.count) <=> ~Triggers(p, clock')
                /\ cycle'.count = cycle.count + 1 =>
                      /\ lastUpdateTime' = clock'
                      /\ lastUpdatePosition' = p
                      /\ cycle'.camX = p[1] /\ cycle'.camZ = p[2]
                /\ cycle'.count = cycle.count =>
                      UNCHANGED <<lastUpdateTime, lastUpdatePosition, quadtreeRoots, leafTiles>> ]_vars

\* one recompute has run, and a frame that came 0.1 s or more after it ran
\* none because the viewer had not moved far enough
C14_Witness ==
    /\ cycle.count = 1
    /\ clock - lastUpdateTime >= 100

\* old is a node when update is called on it, new the node when update
\* returns: every leaf under new is at most minSize or at least size x
\* splitFactor away from the viewer, and a node that this update subdivided is
\* larger than minSize
RECURSIVE SplitDone(_, _, _, _, _, _)
SplitDone(old, new, viewerX, viewerZ, splitFactor, minSize) ==
    IF new.children = <<>>
    THEN \/ new.size <= minSize
         \/ ~LessThanSq(DistSq(new, viewerX, viewerZ), new.size * splitFactor[1], splitFactor[2])
    ELSE /\ old.children = <<>> => new.size > minSize
         /\ \A i \in 1..4 :
               SplitDone(IF old.children # <<>> THEN old.children[i]
                         ELSE [ new.children[i] EXCEPT !.children = <<>> ],
                         new.children[i], viewerX, viewerZ, splitFactor, minSize)

\* C15: split is applied to a fixed point within one update.  With
\* hysteresis >= 1, after the update call of a LOD recompute on a root every
\* leaf of the resulting tree has size <= minSize or is at a viewer distance
\* of at least size x splitFactor, and the update subdivides no node of size
\* <= minSize.
C15_SplitFixedPoint ==
    [][ (lastUpdateTime' # lastUpdateTime /\ lodHysteresis[1] >= lodHysteresis[2]) =>
          \A i \in 1..Len(quadtreeRoots') :
             SplitDone(RootBefore(quadtreeRoots'[i]), quadtreeRoots'[i].root,
                       cycle'.camX, cycle'.camZ, lodSplitFactor, minTileSize) ]_vars

\* one update has split a fresh root down to leaves of the minimum size near
\* the viewer and has left larger leaves far from it
C15_Witness ==
    /\ cycle.count = 1
    /\ cycle.splits > 4
    /\ \E n \in ReachableNodes : n.children = <<>> /\ n.size <= cycle.minTileSize
    /\ \E n \in ReachableNodes : n.children = <<>> /\ n.size > 2 * cycle.minTileSize

\* the viewer is farther from the node than the merge threshold
BeyondMerge(node, viewerX, viewerZ, splitFactor, hysteresis) ==
    GreaterThanSq(DistSq(node, viewerX, viewerZ),
                  node.size * splitFactor[1] * hysteresis[1],
                  splitFactor[2] * hysteresis[2])

Descendants(node) == NodesOf(node) \ { node }

\* old is a node when update is called on it, new the node when update
\* returns: a subdivided old node beyond the merge threshold has become a
\* leaf and nothing that was below it is reachable from it or collected from
\* it; any other node that is subdivided afterwards is within the threshold
RECURSIVE MergeDone(_, _, _, _, _, _)
MergeDone(old, new, viewerX, viewerZ, splitFactor, hysteresis) ==
    IF old.children # <<>> /\ BeyondMerge(old, viewerX, viewerZ, splitFactor, hysteresis)
    THEN /\ new.children = <<>>
         /\ NodesOf(new) \cap Descendants(old) = {}
         /\ LET c == collectLeaves(new, EmptyCollection)
            IN  /\ \A k \in 1..Len(c.leaves) : c.leaves[k] \notin Descendants(old)
                /\ \A d \in Descendants(old) : d.key \notin DOMAIN c.allNodes
    ELSE new.children # <<>> =>
            /\ ~BeyondMerge(new, viewerX, viewerZ, splitFactor, hysteresis)
            /\ \A i \in 1..4 :
                  MergeDone(IF old.children # <<>> THEN old.children[i]
                            ELSE [ new.children[i] EXCEPT !.children = <<>> ],
                            new.children[i], viewerX, viewerZ, splitFactor, hysteresis)

\* C16: merge is top-down and discards the subtree.  After the update call
\* of a LOD recompute every subdivided node reachable from a root is within
\* size x splitFactor x hysteresis of the viewer; a subdivided node beyond
\* that distance is a leaf after the same update, however deep its subtree
\* was, and none of its former descendants is reachable or collected.
C16_MergeDiscardsSubtree ==
    [][ lastUpdateTime' # lastUpdateTime =>
          \A i \in 1..Len(quadtreeRoots') :
             MergeDone(RootBefore(quadtreeRoots'[i]), quadtreeRoots'[i].root,
                       cycle'.camX, cycle'.camZ, lodSplitFactor, lodHysteresis) ]_vars

\* a recompute has merged a node whose subtree was more than one level deep,
\* and subdivided nodes remain
C16_Witness ==
    /\ cycle.merges >= 1
    /\ cycle.discarded > 4 * cycle.merges
    /\ \E n \in ReachableNodes : n.children # <<>>

\* one update call on node with the viewer at p and the values of the store
UpdatedAt(node, p) ==
    update(node, p[1], p[2], lodSplitFactor, lodHysteresis, minTileSize)

\* C17: update is idempotent.  With hysteresis >= 1, for every tree the
\* recomputes have produced and every viewer position, a second update call
\* with the arguments of the first returns the tree of the first: it splits
\* nothing, merges nothing, and the leaves collected from the root are the
\* same.
C17_UpdateIdempotence ==
    lodHysteresis[1] >= lodHysteresis[2] =>
        \A p \in CameraPositions : \A i \in 1..Len(quadtreeRoots) :
           LET once == UpdatedAt(quadtreeRoots[i].root, p)
               twice == UpdatedAt(once, p)
           IN  /\ twice = once
               /\ Splits(once, twice) = 0
               /\ Merges(once, twice) = 0
               /\ collectLeaves(twice, EmptyCollection).leaves
                     = collectLeaves(once, EmptyCollection).leaves

\* the last recompute, a second one, has both split and merged nodes
C17_Witness ==
    /\ cycle.count = 2
    /\ cycle.splits > 0
    /\ cycle.merges > 0
    /\ cycle.hysteresis[1] >= cycle.hysteresis[2]

RECURSIVE WellFormed(_)
WellFormed(node) ==
    \/ node.children = <<>>
    \/ /\ Len(node.children) = 4
       /\ \A i \in 1..4 :
             /\ node.children[i].size * 2 = node.size
             /\ node.children[i].lod = node.lod - 1
             /\ WellFormed(node.children[i])
       \* NW, NE, SW, SE: a quarter of the size away on each axis
       /\ 4 * (node.children[1].centerX - node.centerX) = 0 - node.size
       /\ 4 * (node.children[1].centerZ - node.centerZ) = node.size
       /\ 4 * (node.children[2].centerX - node.centerX) = node.size
       /\ 4 * (node.children[2].centerZ - node.centerZ) = node.size
       /\ 4 * (node.children[3].centerX - node.centerX) = 0 - node.size
       /\ 4 * (node.children[3].centerZ - node.centerZ) = 0 - node.size
       /\ 4 * (node.children[4].centerX - node.centerX) = node.size
       /\ 4 * (node.children[4].centerZ - node.centerZ) = 0 - node.size

\* C2: quadtree structural invariant.  Every node of every root is a leaf
\* (no children) or has exactly 4 children in the order NW, NE, SW, SE, each
\* of half the size, of lod one less, its centre a quarter of the parent
\* size away from the parent centre on each axis.
C2_Structure == \A i \in 1..Len(quadtreeRoots) : WellFormed(quadtreeRoots[i].root)

\* a recompute that both split and merged, leaving a tree three levels deep
C2_Witness ==
    /\ cycle.count >= 2
    /\ cycle.splits > 0
    /\ cycle.merges > 0
    /\ \E n \in ReachableNodes :
          n.children # <<>> /\ \E i \in 1..4 : n.children[i].children # <<>>

\* the grid-aligned root tiles of the 5x5 window whose centre is closer than
\* 2 x rSize to the viewer
ExpectedRootCentres(camX, camZ, rSize) ==
    LET tileX == FloorDiv(camX, rSize)
        tileZ == FloorDiv(camZ, rSize)
        centre(t) == t * rSize + rSize \div 2
    IN  { <<centre(tx), centre(tz)>> :
            <<tx, tz>> \in { t \in ((tileX - 2)..(tileX + 2)) \X ((tileZ - 2)..(tileZ + 2)) :
                 (camX - centre(t[1])) * (camX - centre(t[1]))
                   + (camZ - centre(t[2])) * (camZ - centre(t[2])) < 4 * rSize * rSize } }


\* two squares share interior points
Overlap(a, b) ==
    /\ 2 * Abs(a.centerX - b.centerX) < a.size + b.size
    /\ 2 * Abs(a.centerZ - b.centerZ) < a.size + b.size

\* the square of the node holds the point
Holds(node, x, z) ==
    /\ 2 * Abs(x - node.centerX) <= node.size
    /\ 2 * Abs(z - node.centerZ) <= node.size

\* the square of inner lies within the square of outer
Within(inner, outer) ==
    /\ 2 * Abs(inner.centerX - outer.centerX) + inner.size <= outer.size
    /\ 2 * Abs(inner.centerZ - outer.centerZ) + inner.size <= outer.size

\* the sum of the areas of nodes[lo..hi]
RECURSIVE AreaSumOf(_, _, _)
AreaSumOf(nodes, lo, hi) ==
    IF lo > hi THEN 0
    ELSE IF lo = hi THEN nodes[lo].size * nodes[lo].size
    ELSE LET mid == (lo + hi) \div 2
         IN  AreaSumOf(nodes, lo, mid) + AreaSumOf(nodes, mid + 1, hi)

AreaSum(nodes) == AreaSumOf(nodes, 1, Len(nodes))

\* the leaves list that collectLeaves returns for the root tiles the root's
\* square: the squares lie within it, no two share interior points, their
\* areas add up to the root's, and no leaf is listed twice
TilesRoot(root) ==
    LET leaves == collectLeaves(root, EmptyCollection).leaves
    IN  /\ \A k \in 1..Len(leaves) : Within(leaves[k], root)
        /\ \A j \in 1..Len(leaves) : \A k \in (j + 1)..Len(leaves) :
              /\ ~Overlap(leaves[j], leaves[k])
              /\ leaves[j] # leaves[k]
        /\ AreaSum(leaves) = root.size * root.size

\* C18: the leaves of a root tile the root.  Whenever the roots change, the
\* leaves collected from each root are pairwise non-overlapping squares
\* whose union is the root's square, and each leaf is in the collected list
\* once.  There is no root in the initial state, so this covers every root of
\* every state.
C18_LeavesTileRoot ==
    [][ quadtreeRoots' # quadtreeRoots =>
          \A i \in 1..Len(quadtreeRoots') : TilesRoot(quadtreeRoots'[i].root) ]_vars

\* after a recompute that merged nodes, a root is split into leaves of at
\* least four sizes
C18_Witness ==
    /\ cycle.merges > 0
    /\ \E i \in 1..Len(quadtreeRoots) :
          LET leaves == collectLeaves(quadtreeRoots[i].root, EmptyCollection).leaves
          IN  Cardinality({ leaves[k].size : k \in 1..Len(leaves) }) >= 4

\* C19: node-map snapshot.  After every LOD recompute the node map that the
\* recompute built and used for the stitch lookups contains exactly the
\* nodes reachable from the active roots as that recompute's update left
\* them: every reachable node is an entry, and no entry is a node of an
\* evicted root, of a merged subtree or of an earlier recompute only.
C19_NodeMapSnapshot ==
    cycle.ran =>
        { cycle.allNodes[k] : k \in DOMAIN cycle.allNodes } = ReachableNodes

\* the keys of a list of leaf tiles
TileKeys(tiles) == { tiles[i].node.key : i \in 1..Len(tiles) }

\* some leaf of the new list has stitch info that differs from the stitch
\* info of a published tile of the same key
StitchInfoDiffers(prevTiles, tiles) ==
    \E i \in 1..Len(tiles), j \in 1..Len(prevTiles) :
        /\ tiles[i].node.key = prevTiles[j].node.key
        /\ tiles[i].edgeStitchInfo # prevTiles[j].edgeStitchInfo

\* C27: publication of the leaf list.  A recompute replaces the published
\* leaf-tile list by the list it has collected if and only if the set of
\* leaf keys differs from the set of published keys or some leaf's stitch
\* info differs from the published one; otherwise the previous list object
\* is kept.
C27_LeafListPublication ==
    [][ cycle'.count # cycle.count =>
          /\ cycle'.published <=> \/ TileKeys(cycle'.tiles) # TileKeys(leafTiles)
                                   \/ StitchInfoDiffers(leafTiles, cycle'.tiles)
          /\ leafTiles' = IF cycle'.published THEN cycle'.tiles ELSE leafTiles ]_vars

\* a recompute that was made after the viewer had moved has kept the list
\* that an earlier recompute had published
C27_Witness == cycle.count >= 2 /\ ~cycle.published /\ leafTiles # <<>>

\* a later recompute has replaced the published list by the one it collected
C27_WitnessReplaced ==
    /\ cycle.count >= 2
    /\ cycle.published
    /\ leafTiles = cycle.tiles

\* C9: forest coverage.  After every LOD recompute the active roots are
\* exactly the grid-aligned root tiles (of the store's rootSize) of the 5x5
\* window that are closer than 2 x rootSize to the viewer; they do not
\* overlap pairwise and one of them holds the viewer.
C9_ForestCoverage ==
    cycle.ran =>
        LET expected == ExpectedRootCentres(cycle.camX, cycle.camZ, cycle.rootSize)
            n == Len(quadtreeRoots)
        IN  /\ { <<quadtreeRoots[i].root.centerX, quadtreeRoots[i].root.centerZ>> : i \in 1..n } = expected
            /\ n = Cardinality(expected)
            /\ \A i \in 1..n : quadtreeRoots[i].root.size = cycle.rootSize
            /\ \A i, j \in 1..n : i # j => ~Overlap(quadtreeRoots[i].root, quadtreeRoots[j].root)
            /\ \E i \in 1..n : Holds(quadtreeRoots[i].root, cycle.camX, cycle.camZ)

\* C10: node key uniqueness.  The nodes visited by collectLeaves over all
\* active roots have pairwise distinct keys: the node map holds one entry
\* for every allNodes.set call.
C10_KeyUniqueness ==
    cycle.ran => Cardinality(DOMAIN CollectedNow.allNodes) = CollectedNow.sets

\* the leaves under node whose square holds the point
RECURSIVE LeavesHolding(_, _, _)
LeavesHolding(node, x, z) ==
    IF ~Holds(node, x, z) THEN {}
    ELSE IF node.children = <<>> THEN { node }
    ELSE LeavesHolding(node.children[1], x, z) \cup LeavesHolding(node.children[2], x, z)
         \cup LeavesHolding(node.children[3], x, z) \cup LeavesHolding(node.children[4], x, z)

\* the collected leaves that hold the point, are larger than size and are
\* the entry of the node map under their key
CoarserLeavesAt(x, z, size, allNodes) ==
    { l \in UNION { LeavesHolding(quadtreeRoots[i].root, x, z) : i \in 1..Len(quadtreeRoots) } :
        /\ l.size > size
        /\ l.key \in DOMAIN allNodes
        /\ allNodes[l.key] = l }

\* C4: edge-stitch detection.  For every collected leaf and each edge,
\* getEdgeStitchInfo reports needsStitch = TRUE exactly when the leaf that
\* holds the probe point just outside the edge is in the node map and is
\* larger than the node, and then neighborStep is that neighbour's size
\* divided by the store's tileResolution; otherwise needsStitch = FALSE.
C4_StitchDetection ==
    cycle.ran =>
        LET collected == CollectedNow
        IN  \A k \in 1..Len(collected.leaves) :
               LET leaf == collected.leaves[k]
                   info == getEdgeStitchInfo(leaf, collected.allNodes, cycle.minTileSize)
               IN  \A edge \in Edges :
                      LET p == Probe(leaf, edge)
                          coarser == CoarserLeavesAt(p[1], p[2], leaf.size, collected.allNodes)
                      IN  /\ info[edge].needsStitch <=> (coarser # {})
                          /\ info[edge].needsStitch =>
                               \E l \in coarser :
                                  info[edge].neighborStep = Rat(l.size, cycle.tileResolution)

\* C20: one LOD configuration per cycle.  After every LOD recompute, with
\* the rootSize, minTileSize and tileResolution that the recompute read from
\* the store: every root has the store's rootSize and the lod label
\* log2(rootSize / minTileSize); an edge without a coarser neighbour gets
\* neighborStep = size / tileResolution; and a collected leaf whose edge
\* borders a coarser collected leaf of size S gets needsStitch = TRUE with
\* neighborStep = S / tileResolution.
C20_OneLodConfiguration ==
    cycle.ran =>
        /\ \A i \in 1..Len(quadtreeRoots) :
              /\ quadtreeRoots[i].root.size = cycle.rootSize
              /\ ToString(quadtreeRoots[i].root.lod) = Log2Text(cycle.rootSize, cycle.minTileSize)
        /\ LET collected == CollectedNow
           IN  \A k \in 1..Len(collected.leaves) :
                  LET leaf == collected.leaves[k]
                      info == getEdgeStitchInfo(leaf, cycle.allNodes, cycle.minTileSize)
                  IN  \A edge \in Edges :
                         LET p == Probe(leaf, edge)
                             coarser == CoarserLeavesAt(p[1], p[2], leaf.size, cycle.allNodes)
                         IN  /\ ~info[edge].needsStitch =>
                                  info[edge].neighborStep = Rat(leaf.size, cycle.tileResolution)
                             /\ \A l \in coarser :
                                  /\ info[edge].needsStitch
                                  /\ info[edge].neighborStep = Rat(l.size, cycle.tileResolution)

(***************************************************************************)
(* Properties of the height samplers                                       *)
(***************************************************************************)
\* the call is made strictly inside the spawn radius of its sampler
InsideSpawn(call) ==
    call.x * call.x + call.z * call.z
        < samplers[call.sampler].config.spawnRadius * samplers[call.sampler].config.spawnRadius

\* C7: spawn flatness.  Every call of a height sampler (sampleHeight of
\* createHeightSampler and getNormalizedHeight of createTerrainHelpers) at a
\* point with x*x + z*z < spawnRadius*spawnRadius returns exactly 0 and
\* evaluates no noise: it makes no perlin2 call.
C7_SpawnFlatness ==
    \A i \in 1..Len(samples) :
        InsideSpawn(samples[i]) => samples[i].height = Zero /\ samples[i].calls = 0

\* a sampler of each kind has been called inside its spawn radius, one of
\* them away from the origin and on a noise instance that was used before
C7_Witness ==
    \E i, j \in 1..Len(samples) :
        /\ InsideSpawn(samples[i]) /\ InsideSpawn(samples[j])
        /\ samplers[samples[i].sampler].kind = "sampleHeight"
        /\ samplers[samples[j].sampler].kind = "getNormalizedHeight"
        /\ samples[i].x # 0

\* the two calls are made with equal configurations at the same point
SameQuestion(a, b) ==
    /\ samplers[a.sampler].kind = samplers[b.sampler].kind
    /\ samplers[a.sampler].config = samplers[b.sampler].config
    /\ a.x = b.x
    /\ a.z = b.z

C8_WitnessRepeated ==
    \E i, j \in 1..Len(samples) :
        /\ i < j
        /\ samples[i].sampler = samples[j].sampler
        /\ SameQuestion(samples[i], samples[j])
        /\ samples[j].callsBefore > 0
        /\ samples[i].height # Zero

\* C11: non-finite guard.  No call of a height sampler (sampleHeight of
\* createHeightSampler, getNormalizedHeight of createTerrainHelpers) returns
\* NaN, +Infinity or -Infinity: where the combined height is non-finite the
\* call returns 0.
C11_NonFiniteGuard ==
    \A i \in 1..Len(samples) : IsFinite(samples[i].height)

\* the invariants of a terrain configuration
ValidConfig(c) ==
    /\ c.spawnTransitionRadius > c.spawnRadius
    /\ c.baseHeightScale > 0

\* C12: configuration validation fails fast.  No sampler is ever built from
\* a terrain configuration that violates its invariants
\* (spawnTransitionRadius <= spawnRadius, or baseHeightScale <= 0): such a
\* configuration is rejected when the sampler is constructed.
C12_ConfigValidation ==
    \A i \in 1..Len(samplers) : ValidConfig(samplers[i].config)

\* C13: land at spawn.  Whatever the water level of the store, every isWater
\* call at a point strictly inside the spawn radius of its sampler answers
\* FALSE: the spawn area is land.
C13_LandAtSpawn ==
    \A i \in 1..Len(waterQueries) : InsideSpawn(waterQueries[i]) => ~waterQueries[i].water

\* the height sampleHeight has combined before the spawn transition, with
\* the final guard of the sampler applied
HeightBeforeTransition(sampler, x, z) ==
    sampleHeightBody([ sampler EXCEPT !.config.spawnTransitionRadius = 0 ], x, z).height

\* the position of a call relative to the two radii of its sampler
DistSqOf(call) == call.x * call.x + call.z * call.z
OnSpawnRadius(call) ==
    DistSqOf(call) = samplers[call.sampler].config.spawnRadius
                       * samplers[call.sampler].config.spawnRadius
InTransition(call) ==
    LET c == samplers[call.sampler].config
    IN  /\ c.spawnRadius * c.spawnRadius <= DistSqOf(call)
        /\ DistSqOf(call) < c.spawnTransitionRadius * c.spawnTransitionRadius
BeyondTransition(call) ==
    LET c == samplers[call.sampler].config
    IN  /\ c.spawnRadius * c.spawnRadius <= DistSqOf(call)
        /\ DistSqOf(call) >= c.spawnTransitionRadius * c.spawnTransitionRadius

\* the height of the call before the transition
Natural(call) ==
    HeightBeforeTransition(samplers[call.sampler], HalfMetres(call.x), HalfMetres(call.z))

\* the factor the call has scaled its height by, where that height is not 0
BlendOf(call) == RatDiv(call.height, Natural(call))

\* C21: spawn boundary ownership.  A sampleHeight call at distance exactly
\* spawnRadius does not take the flat branch (it evaluates the noise) and
\* returns 0, the blend factor being 0 there; a call with
\* spawnRadius <= distance < spawnTransitionRadius returns the height
\* scaled by a factor in [0, 1] that does not decrease with the distance;
\* a call at distance >= spawnTransitionRadius returns the height unscaled.
C21_SpawnBoundary ==
    \A i \in 1..Len(samples) :
        samplers[samples[i].sampler].kind = "sampleHeight" =>
            /\ OnSpawnRadius(samples[i]) => samples[i].calls > 0 /\ samples[i].height = Zero
            /\ InTransition(samples[i]) /\ Natural(samples[i]) = Zero
                   => samples[i].height = Zero
            /\ InTransition(samples[i]) /\ Natural(samples[i]) # Zero =>
                   /\ ~RatLess(BlendOf(samples[i]), Zero)
                   /\ ~RatLess(Num(1), BlendOf(samples[i]))
                   /\ \A j \in 1..Len(samples) :
                          /\ samplers[samples[j].sampler].config
                                = samplers[samples[i].sampler].config
                          /\ InTransition(samples[j])
                          /\ Natural(samples[j]) # Zero
                          /\ DistSqOf(samples[i]) <= DistSqOf(samples[j])
                          => ~RatLess(BlendOf(samples[j]), BlendOf(samples[i]))
            /\ BeyondTransition(samples[i]) /\ ~OnSpawnRadius(samples[i])
                   => samples[i].height = Natural(samples[i])

\* a sampler whose spawnTransitionRadius does not exceed its spawnRadius was
\* called at distance exactly spawnRadius and returned a height other than 0
C21_FailingState ==
    \E i \in 1..Len(samples) :
        /\ samplers[samples[i].sampler].kind = "sampleHeight"
        /\ OnSpawnRadius(samples[i])
        /\ samples[i].height # Zero

(***************************************************************************)
(* Properties of the tile mesh builder                                     *)
(***************************************************************************)
\* the triangles of an index buffer
TrianglesOf(index) ==
    { <<index[3 * n - 2], index[3 * n - 1], index[3 * n]>> : n \in 1..(Len(index) \div 3) }

\* the two triangles (a, c, b) and (b, c, d) of a grid quad
QuadTriangles(q, segments) ==
    LET k == QuadCorners(q, segments)
    IN  { <<k[1], k[3], k[2]>>, <<k[2], k[3], k[4]>> }

\* some corner of the quad has a positive depth
WetQuad(built, q) ==
    \E n \in 1..4 : RatLess(Zero, built.depths[QuadCorners(q, built.segments)[n]])

\* some grid vertex of the built tile has a height below the water level
HasUnderwaterVertex(built) ==
    \E v \in DOMAIN built.heights : RatLess(built.heights[v], Num(built.waterLevel))

\* C6: water mesh emptiness.  The builder returns a null water geometry if
\* and only if no grid vertex of the tile has a height below waterLevel; the
\* index buffer of a returned water geometry holds both triangles of every
\* grid quad with at least one corner of positive depth and no other
\* triangle, so no triangle of a fully dry quad.
C6_WaterMesh ==
    \A n \in 1..Len(geometry) :
        LET built == geometry[n]
            quads == 0..(built.segments * built.segments - 1)
        IN  /\ (built.waterGeometry = <<>>) <=> ~HasUnderwaterVertex(built)
            /\ built.waterGeometry # <<>> =>
                 LET triangles == TrianglesOf(built.waterGeometry[1].index)
                 IN  /\ \A q \in quads :
                            IF WetQuad(built, q)
                            THEN QuadTriangles(q, built.segments) \subseteq triangles
                            ELSE QuadTriangles(q, built.segments) \cap triangles = {}
                     /\ triangles \subseteq UNION { QuadTriangles(q, built.segments) : q \in quads }
                     /\ Len(built.waterGeometry[1].index)
                            = 6 * Cardinality({ q \in quads : WetQuad(built, q) })

\* a tile was built with a water geometry while some of its quads are fully
\* dry and some wet quad has a dry first corner
C6_Witness ==
    \E n \in 1..Len(geometry) :
        LET built == geometry[n]
            quads == 0..(built.segments * built.segments - 1)
        IN  /\ built.waterGeometry # <<>>
            /\ \E q \in quads : ~WetQuad(built, q)
            /\ \E q \in quads :
                  /\ WetQuad(built, q)
                  /\ built.depths[QuadCorners(q, built.segments)[1]] = Zero

\* a tile with no vertex below the water level was built: no water geometry
C6_WitnessDry ==
    \E n \in 1..Len(geometry) :
        geometry[n].waterGeometry = <<>> /\ ~HasUnderwaterVertex(geometry[n])

\* the finite differences of grid vertex (i, j) of a built tile taken from
\* direct samples of the height field one step to each side
DirectNormal(built, i, j) ==
    LET helpers == getTerrainHelpers
        step == HalfMetres(built.node.size) \div built.segments
        worldX == HalfMetres(built.node.centerX) - built.node.size + i * step
        worldZ == HalfMetres(built.node.centerZ) - built.node.size + j * step
    IN  [ dhdx |-> RatDiv(RatSub(getWorldHeight(helpers, worldX + step, worldZ),
                                 getWorldHeight(helpers, worldX - step, worldZ)),
                          Rat(2 * step, 2)),
          dhdz |-> RatDiv(RatSub(getWorldHeight(helpers, worldX, worldZ + step),
                                 getWorldHeight(helpers, worldX, worldZ - step)),
                          Rat(2 * step, 2)) ]

\* the grid vertices on the edges of a built tile
EdgeVertices(built) ==
    { v \in DOMAIN built.normals :
        \/ v % (built.segments + 1) \in { 0, built.segments }
        \/ v \div (built.segments + 1) \in { 0, built.segments } }

\* some edge of the tile is stitched
Stitched(built) == \E edge \in Edges : built.edgeStitchInfo[edge].needsStitch

\* C22: boundary normals ignore stitching.  For every vertex on an edge of
\* a built tile, both finite differences of its normal are those of direct
\* samples of the height field one step to each side of the vertex, never
\* of a stitched height of the height cache: the normal is the one the
\* tile has at that world point with no edge stitched.
C22_BoundaryNormals ==
    \A n \in 1..Len(geometry) :
        \A v \in EdgeVertices(geometry[n]) :
            geometry[n].normals[v]
                = DirectNormal(geometry[n], v % (geometry[n].segments + 1),
                               v \div (geometry[n].segments + 1))

\* a tile with a stitched edge was built and a vertex on one of its edges
\* has a normal that differs from the one of the direct samples
C22_FailingState ==
    \E n \in 1..Len(geometry) :
        /\ Stitched(geometry[n])
        /\ \E v \in EdgeVertices(geometry[n]) :
               geometry[n].normals[v]
                   # DirectNormal(geometry[n], v % (geometry[n].segments + 1),
                                  v \div (geometry[n].segments + 1))

\* leaf b lies across the given edge of leaf a and spans that edge
AcrossEdge(a, b, edge) ==
    LET spansX == /\ 2 * b.centerX - b.size <= 2 * a.centerX - a.size
                  /\ 2 * a.centerX + a.size <= 2 * b.centerX + b.size
        spansZ == /\ 2 * b.centerZ - b.size <= 2 * a.centerZ - a.size
                  /\ 2 * a.centerZ + a.size <= 2 * b.centerZ + b.size
    IN  CASE edge = "west"  -> spansZ /\ 2 * b.centerX + b.size = 2 * a.centerX - a.size
          [] edge = "east"  -> spansZ /\ 2 * b.centerX - b.size = 2 * a.centerX + a.size
          [] edge = "south" -> spansX /\ 2 * b.centerZ + b.size = 2 * a.centerZ - a.size
          [] edge = "north" -> spansX /\ 2 * b.centerZ - b.size = 2 * a.centerZ + a.size

Opposite(edge) ==
    CASE edge = "west" -> "east" [] edge = "east" -> "west"
      [] edge = "south" -> "north" [] edge = "north" -> "south"

\* the grid vertex number k along an edge
EdgeVertex(edge, segments, k) ==
    CASE edge = "west" -> <<0, k>> [] edge = "east" -> <<segments, k>>
      [] edge = "south" -> <<k, 0>> [] edge = "north" -> <<k, segments>>

\* the height of vertex k of an edge of a published tile, as the builder
\* computes it now
EdgeVertexHeight(tile, edge, k) ==
    LET v == EdgeVertex(edge, tileResolution, k)
    IN  VertexHeight(tile.node, tile.edgeStitchInfo, tileResolution, getTerrainHelpers,
                     v[1], v[2])

\* the world coordinate (half-metres) of vertex k along an edge of a node
AlongEdge(node, edge, k) ==
    LET step == HalfMetres(node.size) \div tileResolution
        centre == IF edge \in { "west", "east" } THEN node.centerZ ELSE node.centerX
    IN  HalfMetres(centre) - node.size + k * step

\* the height of the rendered edge of a tile at the world coordinate w along
\* the edge: a vertex height on the tile's grid, the linear interpolation
\* between the two bracketing vertices elsewhere
RenderedEdgeHeight(tile, edge, w) ==
    LET step == HalfMetres(tile.node.size) \div tileResolution
        offset == w - AlongEdge(tile.node, edge, 0)
        k0 == offset \div step
        t == Rat(offset % step, step)
    IN  IF offset % step = 0 THEN EdgeVertexHeight(tile, edge, k0)
        ELSE RatAdd(RatMul(EdgeVertexHeight(tile, edge, k0), RatSub(Num(1), t)),
                    RatMul(EdgeVertexHeight(tile, edge, k0 + 1), t))

\* C3: edge-stitch symmetry (no cracks).  For any two adjacent published
\* leaves of different size, every vertex of the finer leaf on the shared
\* edge has the height of the coarser leaf's rendered edge at the same world
\* point: the coarser leaf's vertex height where the grids coincide, the
\* linear interpolation between its two bracketing edge vertices elsewhere.
C3_NoCracks ==
    \A ia, ib \in 1..Len(leafTiles) :
        \A edge \in Edges :
            (/\ leafTiles[ia].node.size < leafTiles[ib].node.size
             /\ AcrossEdge(leafTiles[ia].node, leafTiles[ib].node, edge))
            => \A k \in 0..tileResolution :
                  EdgeVertexHeight(leafTiles[ia], edge, k)
                      = RenderedEdgeHeight(leafTiles[ib], Opposite(edge),
                                           AlongEdge(leafTiles[ia].node, edge, k))

(***************************************************************************)
(* Properties of the vegetation placer                                     *)
(***************************************************************************)
InstanceSet(matrices) == { matrices[n] : n \in 1..Len(matrices) }

\* C5: vegetation determinism and LOD-invariance.  Generating the vegetation
\* of a tile again returns the same instances, and for a tile larger than
\* minTileSize the set of instances generateVegetationForType returns equals
\* the union of the sets it returns for the four children the tile splits
\* into.
C5_VegetationLodInvariance ==
    \A n \in 1..Len(vegetation) :
        LET call == vegetation[n]
            node == QuadtreeNode(call.node.centerX, call.node.centerZ, call.node.size,
                                 call.node.lod)
            children == subdivide(node).children
            Generated(tile) ==
                InstanceSet(generateVegetationForType(tile, getTerrainHelpers, tile.lod,
                                                      grassConfig, call.typeIndex))
        IN  (call.minTileSize = minTileSize /\ call.seed = seed) =>
                /\ Generated(node) = InstanceSet(call.matrices)
                /\ node.size > minTileSize =>
                       InstanceSet(call.matrices) = UNION { Generated(children[c]) : c \in 1..4 }

\* the calls of generateCellVegetation of the generated tiles, each with the
\* call of generateVegetationForType it was made in
CellCalls ==
    { <<n, m>> \in (1..Len(vegetation)) \X (1..64) : m \in DOMAIN vegetation[n].cells }

\* C23: vegetation placement budget.  The placement loop of a cell ends
\* after at most count x 10 attempts; it makes no attempt once count
\* instances are accepted, so the cell never returns more than count
\* instances; where the budget runs out first the cell returns fewer
\* instances, possibly none, as an ordinary array.
C23_PlacementBudget ==
    \A call \in CellCalls :
        LET c == vegetation[call[1]].cells[call[2]]
        IN  /\ c.attempts <= c.count * 10
            /\ Len(c.matrices) <= c.count
            /\ Len(c.matrices) <= c.attempts
            /\ Len(c.matrices) < c.count => c.attempts = c.count * 10
            /\ c.count = 0 => c.attempts = 0 /\ c.matrices = <<>>
            /\ c.matrices \in Seq([ x : Int, y : Int \X Int, z : Int, scale : Int \X Int,
                                    rotY : Int ])

\* the budget of a cell ran out with no instance accepted: the cell returned
\* an empty array after count x 10 attempts
C23_Witness ==
    \E call \in CellCalls :
        LET c == vegetation[call[1]].cells[call[2]]
        IN  c.count > 0 /\ c.matrices = <<>> /\ c.attempts = c.count * 10

\* a cell reached its count after rejected attempts, within its budget
C23_WitnessReached ==
    \E call \in CellCalls :
        LET c == vegetation[call[1]].cells[call[2]]
        IN  Len(c.matrices) = c.count /\ c.count < c.attempts /\ c.attempts < c.count * 10

\* C24: vegetation count rounding.  With t = expectedCount x j, where the
\* jitter j = 0.8 + 0.4 x (first draw of the cell's seeded stream) lies in
\* [0.8, 1.2), the count of a cell is floor(t) or floor(t) + 1, and it is
\* floor(t) + 1 exactly when the second draw of the stream is below the
\* fractional part of t: the count is a function of expectedCount and of
\* the cell's seed alone.
C24_CountRounding ==
    \A call \in CellCalls :
        LET c == vegetation[call[1]].cells[call[2]]
            j == RatAdd(Rat(4, 5), RatMul(Rat(Random(c.seed, 1), 64), Rat(2, 5)))
            t == RatMul(c.expectedCount, j)
            second == Rat(Random(c.seed, 2), 64)
        IN  /\ ~RatLess(j, Rat(4, 5)) /\ RatLess(j, Rat(6, 5))
            /\ c.targetCount = t
            /\ \E f \in { c.count - 1, c.count } :
                   /\ ~RatLess(t, Num(f)) /\ RatLess(t, Num(f + 1))
                   /\ c.count = IF RatLess(second, RatSub(t, Num(f))) THEN f + 1 ELSE f

\* the count of a cell was rounded up from a floor of at least 1
C24_Witness ==
    \E call \in CellCalls :
        LET c == vegetation[call[1]].cells[call[2]]
        IN  c.count >= 2 /\ RatLess(c.targetCount, Num(c.count))

\* the count of a cell was left at the floor of a fractional t
C24_WitnessFloor ==
    \E call \in CellCalls :
        LET c == vegetation[call[1]].cells[call[2]]
        IN  c.count >= 1 /\ RatLess(Num(c.count), c.targetCount)

\* the count of a cell is 0: the cell is skipped
C24_WitnessSkipped ==
    \E call \in CellCalls :
        vegetation[call[1]].cells[call[2]].count = 0

\* C25: the expected count follows the configured density.  For every
\* density the schema allows, expectedCount = density x minTileSize^2 /
\* 1,000,000; a type of density 0, the schema minimum, has expected count
\* 0 and no cell produces an instance of it.
C25_ExpectedCount ==
    \A call \in CellCalls :
        LET v == vegetation[call[1]]
            c == v.cells[call[2]]
        IN  /\ c.expectedCount = Rat(v.config.density * v.minTileSize * v.minTileSize, 1000000)
            /\ v.config.density = 0 => c.matrices = <<>>

\* a cell has produced an instance of a type of density 0
C25_FailingState ==
    \E call \in CellCalls :
        /\ vegetation[call[1]].config.density = MIN_VEGETATION_DENSITY
        /\ vegetation[call[1]].cells[call[2]].matrices # <<>>

\* normal.y of the terrain at (x, z) lies in [lo, hi], for 0 < normal.y <= 1
\* and normal.y = 1 / sqrt(1 + dhdx^2 + dhdz^2)
NormalYWithin(helpers, x, z, lo, hi) ==
    LET inverseSq == InverseNormalYSq(getNormal(helpers, x, z))
    IN  /\ ~RatLess(Zero, lo) \/ ~RatLess(Num(1), RatMul(RatMul(lo, lo), inverseSq))
        /\ RatLess(Zero, hi)
        /\ ~RatLess(RatMul(RatMul(hi, hi), inverseSq), Num(1))

\* C26: placement constraints.  Every instance a cell returns lies in the
\* cell's square [cellX - minTileSize/2, cellX + minTileSize/2) on both
\* axes, sits at the world height of the terrain at its (x, z), and
\* satisfies height.min <= height <= height.max and
\* 1 - slope.max <= normal.y <= 1 - slope.min.
C26_PlacementConstraints ==
    \A call \in CellCalls :
        LET v == vegetation[call[1]]
            c == v.cells[call[2]]
        IN  \A m \in 1..Len(c.matrices) :
                LET i == c.matrices[m]
                IN  /\ c.cellX - v.minTileSize <= i.x /\ i.x < c.cellX + v.minTileSize
                    /\ c.cellZ - v.minTileSize <= i.z /\ i.z < c.cellZ + v.minTileSize
                    /\ i.y = getWorldHeight(v.terrainHelpers, i.x, i.z)
                    /\ ~RatLess(i.y, v.config.height.min)
                    /\ ~RatLess(v.config.height.max, i.y)
                    /\ NormalYWithin(v.terrainHelpers, i.x, i.z,
                                     RatSub(Num(1), v.config.slope.max),
                                     RatSub(Num(1), v.config.slope.min))

\* a cell on terrain that is not flat has returned instances at different
\* heights after rejecting some positions
C26_Witness ==
    \E call \in CellCalls :
        LET c == vegetation[call[1]].cells[call[2]]
        IN  /\ Len(c.matrices) < c.attempts
            /\ \E m1, m2 \in 1..Len(c.matrices) : c.matrices[m1].y # c.matrices[m2].y

\* the position of the last event of a kind in the log of loading events, 0 if none
LastEvent(kind) ==
    IF \E n \in 1..Len(loadLog) : loadLog[n] = kind
    THEN CHOOSE n \in 1..Len(loadLog) :
            /\ loadLog[n] = kind
            /\ \A m \in (n + 1)..Len(loadLog) : loadLog[m] # kind
    ELSE 0

\* onLoad has fired and no onStart has fired after it
LoadedAndQuiet == LastEvent("onLoad") > LastEvent("onStart")

\* C28: once onLoad has fired with no onStart after it, sceneLoaded is true
\* and stays true whatever timers of earlier onStarts fire afterwards; the
\* only other value it takes is false, and only an onLoad sets it to true
C28_LoadingFlag ==
    /\ sceneLoaded \in BOOLEAN
    /\ LoadedAndQuiet => sceneLoaded
    /\ sceneLoaded => LastEvent("onLoad") > 0

\* a timer of an earlier onStart has fired after the last onLoad, and the
\* flag is still true
C28_Witness ==
    /\ LoadedAndQuiet
    /\ LastEvent("timeout") > LastEvent("onLoad")
    /\ LastEvent("onStart") > 0
    /\ sceneLoaded

\* a timer has set the flag to false while loading is under way
C28_WitnessLoading ==
    /\ LastEvent("onStart") > LastEvent("onLoad")
    /\ LastEvent("onLoad") > 0
    /\ LastEvent("timeout") > LastEvent("onStart")
    /\ ~sceneLoaded


\* the geometries the tile's meshes have now
MeshGeometries == { terrainTile.terrainGeometry, terrainTile.waterGeometry } \ { NoGeometry }

\* C29: when the effects of the last render have run, every geometry the
\* tile created is disposed unless it is the one a mesh of the mounted tile
\* has; once the tile is unmounted every geometry it created is disposed;
\* the geometry a mesh of the mounted tile has is never disposed
C29_GeometryLifecycle ==
    \A g \in 1..Len(terrainTile.geometries) :
        /\ (terrainTile.phase = "mounted" /\ g \in MeshGeometries)
              => terrainTile.geometries[g].disposed = 0
        /\ (terrainTile.phase = "mounted" /\ ~terrainTile.pending /\ g \notin MeshGeometries)
              => terrainTile.geometries[g].disposed >= 1
        /\ terrainTile.phase = "unmounted" => terrainTile.geometries[g].disposed >= 1

\* the tile was rebuilt with water and without, and then unmounted
C29_Witness ==
    /\ terrainTile.phase = "unmounted"
    /\ terrainTile.renders >= 3
    /\ \E g \in 1..Len(terrainTile.geometries) : terrainTile.geometries[g].kind = "water"
    /\ terrainTile.waterGeometry = NoGeometry

\* a mounted tile after a rebuild: the replaced geometries are disposed
C29_WitnessReplaced ==
    /\ terrainTile.phase = "mounted"
    /\ ~terrainTile.pending
    /\ terrainTile.renders >= 2
    /\ terrainTile.waterGeometry # NoGeometry
    /\ \E g \in 1..Len(terrainTile.geometries) :
          terrainTile.geometries[g].kind = "water" /\ terrainTile.geometries[g].disposed >= 1


\* equality of two values of the store, of any two kinds
Same(a, b) == ToString(a) = ToString(b)

\* the value a store field has after the preset of presetCall' was applied
\* to the state before it
ExpectedField(f) ==
    LET call == presetCall'
    IN  IF call.found /\ f \in PresetFieldSet /\ f \in DOMAIN call.preset
        THEN IF f = "sunDirection" THEN normalizeDirection(call.preset[f]) ELSE call.preset[f]
        ELSE StoreState[f]

\* C30: a call of applyPreset, or of applyPresetById with a known id, sets
\* each preset field the preset defines to the preset's value (sunDirection
\* to its normalised value) and leaves every other field of the store as it
\* was, the LOD settings, sceneLoaded, performanceDegraded and notification
\* among them; applyPresetById with an unknown id leaves every field as it was
C30_PresetFrame ==
    [][ presetCall'.count # presetCall.count =>
          /\ \A f \in StoreFields : Same(StoreState'[f], ExpectedField(f))
          /\ \A f \in StoreFields \ PresetFieldSet : Same(StoreState'[f], StoreState[f])
          /\ ~presetCall'.found => Same(StoreState', StoreState) ]_vars

\* a caller's preset that defines the seed but no water level was applied
\* last, after the winter preset: the store has the caller's seed, the
\* winter preset's layers, an edited LOD setting, a notification and the
\* scene loaded
C30_Witness ==
    /\ presetCall.count >= 2
    /\ presetCall.id = "caller"
    /\ "seed" \in DOMAIN presetCall.preset
    /\ Same(seed, 5678)
    /\ store.layers = winterPreset.layers
    /\ store.sunDirection = [ unit |-> <<0, 1, 0>> ]
    /\ lodSplitFactor = <<3, 2>>
    /\ sceneLoaded
    /\ store.notification # NoNotification

\* applyPresetById was called with an id that is no preset, after the
\* winter preset had replaced the initial values
C30_WitnessUnknown ==
    /\ presetCall.action = "applyPresetById"
    /\ presetCall.id = "tundra"
    /\ ~presetCall.found
    /\ presetCall.count >= 2
    /\ Same(seed, 9012)
    /\ lodSplitFactor = <<3, 2>>

\* applyPresetById found a property of Object.prototype
C30_WitnessInherited ==
    /\ presetCall.action = "applyPresetById"
    /\ presetCall.id = "constructor"

====
